---- MODULE Spec2Model ----
(***************************************************************************)
(* Real-time voice streaming clients of the SILOAM front end.              *)
(*                                                                         *)
(*   VoiceClient   src/unnamed/part_001: microphone -> PcmDownsampler      *)
(*                 worklet (resample, 20 ms Int16 frames) -> WebSocket,    *)
(*                 with a drop-on-backpressure policy.                     *)
(*   AudioStreamer src/SILOAM/components/AudioStreamer.tsx: microphone ->  *)
(*                 pumpUplinkChunks (resample, 40 ms Int16 chunks) ->      *)
(*                 WebSocket, tts.start / tts.end from the server.         *)
(*   VoiceAgent    src/SILOAM/src/app/voiceAgent/page.tsx: MediaRecorder   *)
(*                 chunks behind an upload gate, RMS voice-activity        *)
(*                 detector with barge-in.                                 *)
(*                                                                         *)
(* One client is mounted per behaviour (variable client).                  *)
(*                                                                         *)
(* Numbers.  Sample amplitudes are integers (the float values -2.0 .. 2.0).*)
(* The resamplers' cursors and interpolated samples are exact rationals    *)
(* with denominator cfg.targetSr (the value times cfg.targetSr is stored); *)
(* the rounding of float32/float64 arithmetic in the resamplers is not     *)
(* modelled.  The VAD's speech accumulator is compared with a threshold,   *)
(* so its IEEE-754 double arithmetic is modelled exactly (see SpeakAdd).   *)
(***************************************************************************)
EXTENDS Integers, Sequences, FiniteSets, TLC

VARIABLES
    client,         \* the mounted component: "VoiceClient" | "AudioStreamer" | "VoiceAgent"
    cfg,            \* [sampleRate, targetSr, frameMs]: native rate, target rate, frame duration
    sockets,        \* every WebSocket created so far: Seq of [state, log, buffered, staleRunning,
                    \* byStart]
    wsRef,          \* wsRef.current: 0 (null) or an index into sockets
    running,        \* React state `running`
    \* ---- capture source and resampler ----
    \* (histories since the page was mounted)
    micHist,        \* history: every input sample delivered by the capture source, in order
    resampled,      \* history: every resampled (unquantized) sample produced, in order
    framesOut,      \* history: every Int16 frame the resampler emitted, in order
    pdInBuf,        \* PcmDownsampler.inBuf[inRead .. inLen)
    pdPos,          \* PcmDownsampler._pos (times cfg.targetSr)
    pdOutBuf,       \* PcmDownsampler.outBuf (times cfg.targetSr), outSamplesPerFrame long
    pdOutWrite,     \* PcmDownsampler.outWrite
    \* ---- VoiceClient main thread ----
    pc,             \* where the pending start / startCapture call is suspended, or "idle"
    node,           \* the worklet node is in the audio graph and its port is open
    port,           \* frames posted by the worklet, not yet delivered to node.port.onmessage
    connected,      \* React state `connected`
    framesSent,     \* React state `framesSent`
    framesDropped,  \* React state `framesDropped`
    delivered,      \* history: frames handed to node.port.onmessage in this session
    \* ---- AudioStreamer ----
    wsOpenRef,      \* wsOpenRef.current
    asInBuf,        \* inBufRef.current
    readPtr,        \* readPtrRef.current (times cfg.targetSr)
    ratio,          \* ratioRef.current (times cfg.targetSr)
    ttsActive,      \* ttsActiveRef.current
    ttsRate,        \* ttsRateRef.current
    sentInTts,      \* history: uplink frames sent since the last tts.start, while TTS is active
    now,            \* audioCtxRef.current.currentTime, in ticks of 1 / TicksPerSec s
                    \* (0 while audioCtxRef.current is null)
    audioCtxRef,    \* audioCtxRef.current is set
    playbackTimeRef,\* playbackTimeRef.current, in ticks of the context's time, or Null
    clockSetBy,     \* history: what wrote the clock last, "none" | "reset" | "chunk"
    scheduled,      \* history: the chunks handed to src.start(when) on the context in
                    \* audioCtxRef, in arrival order
    ttsAwait,       \* tts.start handlers suspended at `await ensureAudioContext()`
    pc2,            \* where a second, overlapping start / startCapture call is suspended
    uncaught,       \* history: an exception left a handler uncaught
    micLive,        \* MediaStreams obtained from getUserMedia whose tracks are not stopped
    \* ---- VoiceAgent ----
    isInitialized,  \* React state `isInitialized`
    status,         \* React state `status`
    streamRef,      \* streamRef.current holds a live MediaStream
    analyser,       \* analyserRef.current is set and connected to the source
    recorder,       \* the MediaRecorder: "inactive" | "recording" | "flushing" (stop() called,
                    \* the last dataavailable event not yet delivered)
    vadLoops,       \* requestAnimationFrame chains of vadLoop that are alive
    canUploadRef,   \* canUploadRef.current
    ttsPlayingRef,  \* ttsPlayingRef.current
    bargeSentRef,   \* bargeSentRef.current
    noiseFloor,     \* noiseFloorRef.current (times NfScale)
    speakK,         \* speakingMsRef.current = (speakK * SpeakT + speakD) * 2^-48, see SpeakAdd
    speakD,
    utterance,      \* history: the server's last word, "none" | "speaking" | "ended"
    chunkLog,       \* history: the size of every chunk handed to rec.ondataavailable, in order
    passed,         \* history: indices in chunkLog of the chunks that passed the gate
    bargeIns,       \* history: barge-in edges since the last tts_start / tts_end
    speechRun,      \* history: consecutive speech frames during playback since the
                    \* accumulator was zero with no barge-in sent (0: no such run)
    \* ---- VoiceAgent, the tick function on its own ----
    meter           \* two runs of tick side by side, [a, b, n]: the refs tick reads and
                    \* writes in each run, metering levels included, and the ticks taken

sessVars == << client, cfg, meter >>
wsVars == << sockets, wsRef >>
histVars == << micHist, resampled, framesOut >>
pdVars == << pdInBuf, pdPos, pdOutBuf, pdOutWrite >>
vcVars == << connected, framesSent, framesDropped, delivered >>
upVars == << asInBuf, readPtr, ratio >>
ttsVars == << ttsActive, ttsRate, sentInTts >>
playVars == << now, audioCtxRef, playbackTimeRef, clockSetBy, scheduled, ttsAwait >>
auxVars == << pc2, uncaught >>
asVars == << wsOpenRef, upVars, ttsVars, playVars, auxVars, micLive >>
gateVars == << canUploadRef, ttsPlayingRef, bargeSentRef >>
vadVars == << noiseFloor, speakK, speakD >>
vaHist == << utterance, chunkLog, passed, bargeIns, speechRun >>
vaRest == << isInitialized, status, analyser, recorder, vadLoops, gateVars, vadVars, vaHist >>
vaVars == << streamRef, vaRest >>

vars == << sessVars, wsVars, running, pc, node, port, histVars, pdVars, vcVars, asVars,
           vaVars >>

(***************************************************************************)
(* Bounds of the exploration.                                              *)
(***************************************************************************)
MaxInput == 6          \* input samples delivered to one resampler, arbitrary batches
MaxBatch == 3          \* longest arbitrary capture batch
MaxQuanta == 4         \* capture callbacks in one behaviour of a session
MaxSockets == 1        \* WebSockets created in one behaviour
MaxOverlap == 1        \* more WebSockets that start calls overlapping another may create
MaxMics == 2           \* microphone streams live at the same time

\* amplitudes the capture source delivers (2 and -2 lie outside [-1.0, 1.0])
Amplitudes == {-2, 0, 1}
\* native / target rates in Hz and frame durations in ms; every pair gives an
\* integral number of input samples per frame, as 48 kHz, 44.1 kHz, 16 kHz do
\* with the 20 ms and 40 ms frames of the source
NativeRates == {1000, 3000, 4000}
TargetRates == {2000}
FrameDurations == {1}

RECURSIVE SeqsUpTo(_, _)
SeqsUpTo(S, n) ==
    IF n = 0 THEN {<< >>}
    ELSE LET shorter == SeqsUpTo(S, n - 1)
         IN shorter \cup {Append(s, x) : s \in {t \in shorter : Len(t) = n - 1}, x \in S}

\* samples per capture callback in a session: the render quantum of the audio
\* graph (128 in a browser)
RenderQuantum == 4
\* capture batches: every sequence of 1 .. MaxBatch amplitudes
Batches == SeqsUpTo(Amplitudes, MaxBatch) \ {<< >>}
\* the capture batch of a silent microphone
SilentQuantum == [i \in 1 .. RenderQuantum |-> 0]

(***************************************************************************)
(* JavaScript arithmetic.                                                  *)
(***************************************************************************)
FloorDiv(a, b) == a \div b                       \* Math.floor(a / b), b > 0
CeilDiv(a, b) == -((-a) \div b)                  \* Math.ceil(a / b), b > 0
TruncDiv(a, b) == IF a >= 0 THEN a \div b ELSE -((-a) \div b)   \* (a / b) | 0
Min(a, b) == IF a <= b THEN a ELSE b
Max(a, b) == IF a >= b THEN a ELSE b
\* a || b on numbers: 0 (like NaN and undefined) is falsy
JsOr(a, b) == IF a = 0 THEN b ELSE a
\* arr[i] of a typed array (0-based), undefined || 0 outside it
At(arr, i) == IF i >= 0 /\ i < Len(arr) THEN arr[i + 1] ELSE 0

(***************************************************************************)
(* PcmDownsampler, the AudioWorklet processor of VoiceClient.              *)
(***************************************************************************)
\* (variant: one sample too many per frame)
OutSamplesPerFrame_OneMore(c) == FloorDiv(c.targetSr * c.frameMs, 1000) + 1

\* constructor: outSamplesPerFrame = Math.floor(targetSr * frameMs / 1000)
OutSamplesPerFrame(c) == FloorDiv(c.targetSr * c.frameMs, 1000)

\* the processor's fields after its constructor ran
PdNew(c) ==
    [inBuf |-> << >>, inRead |-> 0, pos |-> 0,
     outBuf |-> [i \in 1 .. OutSamplesPerFrame(c) |-> 0], outWrite |-> 0,
     res |-> << >>, posted |-> << >>]

\* (variant: the unread tail is forgotten)
PdAppendInput_NoTail(st, ch0) ==
    IF ch0 = << >> THEN st ELSE [st EXCEPT !.inBuf = ch0, !.inRead = 0]

\* _appendInput: the unread tail, then the batch
PdAppendInput(st, ch0) ==
    IF ch0 = << >> THEN st
    ELSE [st EXCEPT !.inBuf = SubSeq(st.inBuf, st.inRead + 1, Len(st.inBuf)) \o ch0,
                    !.inRead = 0]

\* the value an Int16Array element holds after v is stored in it
ToInt16(v) == ((v + 32768) % 65536) - 32768

\* (variant: the sample is not clamped)
PdQuantize_NoClamp(c, s) ==
    ToInt16(TruncDiv(s * 32767, c.targetSr))

\* _flushFrame, per sample: clamp to [-1, 1], then int16[i] = (s * 0x7fff) | 0
PdQuantize(c, s) ==
    ToInt16(TruncDiv(Max(-c.targetSr, Min(c.targetSr, s)) * 32767, c.targetSr))

\* (variant: the write index restarts at 1)
PdFlushFrame_Restart1(c, st) ==
    [st EXCEPT !.posted = Append(@, [i \in 1 .. Len(st.outBuf) |-> PdQuantize(c, st.outBuf[i])]),
               !.outWrite = 1]

\* _flushFrame: one Int16 per element of outBuf, posted to the port; outWrite = 0
PdFlushFrame(c, st) ==
    [st EXCEPT !.posted = Append(@, [i \in 1 .. Len(st.outBuf) |-> PdQuantize(c, st.outBuf[i])]),
               !.outWrite = 0]

\* _produceOut, the sample written for cursor pos into the unread input
PdInterpolate(c, st) ==
    LET base == st.inRead + FloorDiv(st.pos, c.targetSr)
        frac == st.pos - FloorDiv(st.pos, c.targetSr) * c.targetSr
        s0 == JsOr(At(st.inBuf, base), 0)
        s1 == JsOr(At(st.inBuf, base + 1), s0)
    IN  s0 * c.targetSr + (s1 - s0) * frac

\* (variant: the whole part stays in the cursor)
PdCursorAfter_Whole(c, nextPos, consume) == nextPos

\* _produceOut: this._pos = nextPos; if (consume > 0) this._pos -= consume
PdCursorAfter(c, nextPos, consume) == nextPos - consume * c.targetSr

\* _produceOut: while the input holds ceil(pos + ratio) + 1 unread samples
RECURSIVE PdProduceOut(_, _)
PdProduceOut(c, st) ==
    LET nextPos == st.pos + c.sampleRate
        need == CeilDiv(nextPos, c.targetSr) + 1
        avail == Len(st.inBuf) - st.inRead
    IN  IF avail < need THEN st
        ELSE LET s == PdInterpolate(c, st)
                 consume == FloorDiv(nextPos, c.targetSr)
                 wrote == [st EXCEPT !.outBuf[st.outWrite + 1] = s,
                                     !.outWrite = @ + 1,
                                     !.res = Append(@, s),
                                     !.pos = PdCursorAfter(c, nextPos, consume),
                                     !.inRead = @ + consume]
             IN  PdProduceOut(c, IF wrote.outWrite >= Len(wrote.outBuf)
                                 THEN PdFlushFrame(c, wrote) ELSE wrote)

\* process: append, produce, compact (inBuf becomes its unread tail, inRead = 0)
PdProcessCall(c, st, ch0) ==
    LET done == PdProduceOut(c, PdAppendInput(st, ch0))
    IN  [done EXCEPT !.inBuf = SubSeq(done.inBuf, done.inRead + 1, Len(done.inBuf)),
                     !.inRead = 0]

\* the processor's fields between two process calls
PdState ==
    [inBuf |-> pdInBuf, inRead |-> 0, pos |-> pdPos, outBuf |-> pdOutBuf,
     outWrite |-> pdOutWrite, res |-> << >>, posted |-> << >>]

\* one render quantum: process(inputs) with inputs[0][0] = ch0
PdProcess(ch0) ==
    /\ client = "VoiceClient"
    /\ node
    /\ LET st == PdProcessCall(cfg, PdState, ch0)
       IN  /\ pdInBuf' = st.inBuf
           /\ pdPos' = st.pos
           /\ pdOutBuf' = st.outBuf
           /\ pdOutWrite' = st.outWrite
           /\ micHist' = micHist \o ch0
           /\ resampled' = resampled \o st.res
           /\ framesOut' = framesOut \o st.posted
           /\ port' = port \o st.posted
    /\ UNCHANGED << sessVars, vaVars, wsVars, running, pc, node, vcVars, asVars >>

(***************************************************************************)
(* WebSockets.  A socket's log is what the client sent on it, in order.    *)
(***************************************************************************)
\* a JSON handshake declaring the uplink format; a binary message of Int16 samples
TextMsg(type, rate, ms) ==
    [binary |-> FALSE, type |-> type, rate |-> rate, ms |-> ms, bytes |-> 0]
BinaryMsg(frame) ==
    [binary |-> TRUE, type |-> "audio", rate |-> 0, ms |-> 0, bytes |-> 2 * Len(frame)]

\* new WebSocket(WS_URL); `stale` is the value of `running` its onclose closes over
NewSocket(stale) ==
    [state |-> "CONNECTING", log |-> << >>, buffered |-> 0, staleRunning |-> stale,
     byStart |-> FALSE]

\* the same, made inside start / startCapture (byStart: history)
StartSocket(stale) == [NewSocket(stale) EXCEPT !.byStart = TRUE]

\* ws.send(msg) on an open socket
Send(i, msg) == [sockets EXCEPT ![i].log = Append(@, msg)]

\* ws.close(): a socket that is not closed starts closing
Close(socks, i) ==
    IF socks[i].state \in {"CONNECTING", "OPEN"}
    THEN [socks EXCEPT ![i].state = "CLOSING"] ELSE socks

\* ws.bufferedAmount is kept by the browser: bytes queued by send and not yet
\* handed to the network.  The browser may report any of these levels; only
\* the level of the socket in wsRef is ever read.
\* (variant: the ceiling one byte higher)
BACKPRESSURE_CEILING_OneMore == 1000000 + 1
\* if (ws.bufferedAmount > 1_000_000)
BACKPRESSURE_CEILING == 1000000
BufferedLevels == {0, BACKPRESSURE_CEILING, BACKPRESSURE_CEILING + 1}

WsBuffered(i, level) ==
    /\ i \in 1 .. Len(sockets)
    /\ i = wsRef
    /\ sockets[i].state = "OPEN"
    /\ level \in BufferedLevels
    /\ level # sockets[i].buffered
    /\ sockets' = [sockets EXCEPT ![i].buffered = level]
    /\ UNCHANGED << sessVars, vaVars, wsRef, running, pc, node, port, histVars, pdVars, vcVars, asVars >>

(***************************************************************************)
(* VoiceClient, main thread.                                               *)
(***************************************************************************)
\* the 48 kHz -> 16 kHz / 20 ms pipeline of VoiceClient, at 6 kHz -> 2 kHz / 1 ms
VcConfig == [sampleRate |-> 6000, targetSr |-> 2000, frameMs |-> 1]

\* (variant: the hello names another frame duration than the worklet is given)
VcHello_OtherFrame == TextMsg("hello", VcConfig.targetSr, 2 * VcConfig.frameMs)

\* {type: "hello", client: "nextjs", format: "pcm_s16le_16k_20ms"}: the literal
\* names the rate and frame duration also passed as processorOptions
VcHello == TextMsg("hello", VcConfig.targetSr, VcConfig.frameMs)

\* stopCapture: running = false, the node's port is closed, the node dropped
VcStopCaptureEffect ==
    /\ running' = FALSE
    /\ node' = FALSE
    /\ port' = << >>
    \* streamRef.current?.getTracks().forEach((t) => t.stop())
    /\ micLive' = IF streamRef THEN micLive - 1 ELSE micLive
    /\ streamRef' = FALSE

\* connectWS, up to wsRef.current = ws
VcConnectWSEffect ==
    /\ sockets' = Append(sockets, NewSocket(running))
    /\ wsRef' = Len(sockets) + 1

\* the "Connect WS" button (rendered while not connected)
VcConnectWS ==
    /\ client = "VoiceClient"
    /\ ~connected
    /\ Len(sockets) < MaxSockets
    /\ VcConnectWSEffect
    /\ UNCHANGED << sessVars, vaVars, running, pc, node, port, histVars, pdVars, vcVars, asVars >>

\* the "Disconnect" button (rendered while connected): disconnectWS
VcDisconnectWS ==
    /\ client = "VoiceClient"
    /\ connected
    /\ sockets' = IF wsRef = 0 THEN sockets ELSE Close(sockets, wsRef)
    /\ wsRef' = 0
    /\ UNCHANGED << sessVars, vaVars, running, pc, node, port, histVars, pdVars, vcVars, asVars >>

\* ws.onopen: connected, the hello handshake, and connectWS's promise resolves
VcWsOpen(i) ==
    /\ client = "VoiceClient"
    /\ i \in 1 .. Len(sockets)
    /\ sockets[i].state = "CONNECTING"
    /\ sockets' = [Send(i, VcHello) EXCEPT ![i].state = "OPEN"]
    /\ connected' = TRUE
    /\ pc' = IF pc = <<"ws", i>> THEN <<"mic", 0>> ELSE pc
    /\ UNCHANGED << sessVars, vaVars, wsRef, running, node, port, histVars, pdVars,
                    framesSent, framesDropped, delivered, asVars >>

\* ws.onclose, after the server, the network or close() ended the connection
VcWsClose(i) ==
    /\ client = "VoiceClient"
    /\ i \in 1 .. Len(sockets)
    /\ sockets[i].state # "CLOSED"
    /\ sockets' = [sockets EXCEPT ![i].state = "CLOSED"]
    /\ connected' = FALSE
    /\ IF sockets[i].staleRunning
       THEN VcStopCaptureEffect
       ELSE UNCHANGED << running, node, port, micLive, streamRef >>
    /\ wsRef' = 0
    /\ UNCHANGED << sessVars, vaRest, pc, histVars, pdVars, framesSent, framesDropped, delivered,
                    wsOpenRef, upVars, ttsVars, playVars, auxVars >>

\* ws.onmessage of socket i, a text message that is not JSON: JSON.parse
\* throws inside the try block, whose catch logs the text
VcBadJson(i) ==
    /\ client = "VoiceClient"
    /\ i \in 1 .. Len(sockets)
    /\ sockets[i].state \in {"OPEN", "CLOSING"}
    /\ UNCHANGED vars

\* the "Start Mic" button (rendered while not running, enabled while connected):
\* startCapture up to its first await that suspends (`most`: the sockets the
\* behaviour may create)
VcStartCaptureUpTo(most) ==
    /\ client = "VoiceClient"
    /\ ~running /\ connected
    /\ pc = <<"idle", 0>>
    /\ IF wsRef = 0 \/ sockets[wsRef].state # "OPEN"
       THEN /\ Len(sockets) < most
            /\ sockets' = Append(sockets, StartSocket(running))
            /\ wsRef' = Len(sockets) + 1
            /\ pc' = <<"ws", Len(sockets) + 1>>
       ELSE /\ pc' = <<"mic", 0>>
            /\ UNCHANGED wsVars
    /\ UNCHANGED << sessVars, vaVars, running, node, port, histVars, pdVars, vcVars, asVars >>

\* the same, with at most MaxSockets sockets in the behaviour
VcStartCapture == VcStartCaptureUpTo(MaxSockets)

\* the "Start Mic" button pressed again while a startCapture call is
\* suspended at an await (running is still false, so the button is still
\* there, and startCapture has no guard): the new call runs to its first
\* await that suspends; the earlier call is kept in pc2
VcStartCaptureAgain ==
    /\ client = "VoiceClient"
    /\ ~running /\ connected
    /\ pc # <<"idle", 0>> /\ pc2 = <<"idle", 0>>
    /\ pc2' = pc
    /\ IF wsRef = 0 \/ sockets[wsRef].state # "OPEN"
       THEN /\ Len(sockets) < MaxSockets + MaxOverlap
            /\ sockets' = Append(sockets, StartSocket(running))
            /\ wsRef' = Len(sockets) + 1
            /\ pc' = <<"ws", Len(sockets) + 1>>
       ELSE /\ pc' = <<"mic", 0>>
            /\ UNCHANGED wsVars
    /\ UNCHANGED << sessVars, vaVars, running, node, port, histVars, pdVars, vcVars,
                    wsOpenRef, upVars, ttsVars, playVars, uncaught, micLive >>

\* of two suspended start / startCapture calls, the one kept in pc2 is the
\* next whose await settles
ResumeOther ==
    /\ client \in {"VoiceClient", "AudioStreamer"}
    /\ pc2 # <<"idle", 0>>
    /\ pc' = pc2
    /\ pc2' = pc
    /\ UNCHANGED << sessVars, vaVars, wsVars, running, node, port, histVars, pdVars, vcVars,
                    wsOpenRef, upVars, ttsVars, playVars, uncaught, micLive >>

\* getUserMedia resolves; the AudioContext is made and addModule awaited
VcMicGranted ==
    /\ client = "VoiceClient"
    /\ pc = <<"mic", 0>>
    /\ micLive < MaxMics
    /\ pc' = <<"module", 0>>
    /\ streamRef' = TRUE
    /\ micLive' = micLive + 1
    /\ UNCHANGED << sessVars, vaRest, wsVars, running, node, port, histVars, pdVars, vcVars,
                    wsOpenRef, upVars, ttsVars, playVars, auxVars >>

\* getUserMedia rejects: the catch block runs stopCapture
VcMicDenied ==
    /\ client = "VoiceClient"
    /\ pc = <<"mic", 0>>
    /\ pc' = <<"idle", 0>>
    /\ VcStopCaptureEffect
    /\ UNCHANGED << sessVars, vaRest, wsVars, histVars, pdVars, vcVars, wsOpenRef, upVars, ttsVars, playVars, auxVars >>

\* addModule rejects (or a later line of the try block throws): the catch
\* block runs stopCapture
VcModuleFailed ==
    /\ client = "VoiceClient"
    /\ pc = <<"module", 0>>
    /\ pc' = <<"idle", 0>>
    /\ VcStopCaptureEffect
    /\ UNCHANGED << sessVars, vaRest, wsVars, histVars, pdVars, vcVars, wsOpenRef, upVars, ttsVars, playVars, auxVars >>

\* addModule resolves: the node is created and connected, the counters reset
VcModuleLoaded ==
    /\ client = "VoiceClient"
    /\ pc = <<"module", 0>>
    /\ pc' = <<"idle", 0>>
    /\ node' = TRUE
    /\ port' = << >>
    /\ LET st == PdNew(cfg)
       IN  /\ pdInBuf' = st.inBuf
           /\ pdPos' = st.pos
           /\ pdOutBuf' = st.outBuf
           /\ pdOutWrite' = st.outWrite
    /\ framesSent' = 0
    /\ framesDropped' = 0
    /\ delivered' = 0
    /\ running' = TRUE
    /\ UNCHANGED << sessVars, vaVars, wsVars, histVars, connected, asVars >>

\* the "Stop Mic" button (rendered while running)
VcStopCapture ==
    /\ client = "VoiceClient"
    /\ running
    /\ VcStopCaptureEffect
    /\ UNCHANGED << sessVars, vaRest, wsVars, pc, histVars, pdVars, vcVars, wsOpenRef, upVars, ttsVars, playVars, auxVars >>

\* node.port.onmessage, first line: a socket, and it is open
VcCanSend == wsRef # 0 /\ sockets[wsRef].state = "OPEN"

\* node.port.onmessage: one frame from the worklet
VcPortMessage ==
    /\ client = "VoiceClient"
    /\ node
    /\ port # << >>
    /\ port' = Tail(port)
    /\ delivered' = delivered + 1
    /\ IF ~VcCanSend
       THEN UNCHANGED << sockets, framesSent, framesDropped >>
       ELSE IF sockets[wsRef].buffered > BACKPRESSURE_CEILING
       THEN /\ framesDropped' = framesDropped + 1
            /\ UNCHANGED << sockets, framesSent >>
       ELSE /\ sockets' = Send(wsRef, BinaryMsg(Head(port)))
            /\ framesSent' = framesSent + 1
            /\ UNCHANGED framesDropped
    /\ UNCHANGED << sessVars, vaVars, wsRef, running, pc, node, histVars, pdVars, connected, asVars >>

(***************************************************************************)
(* AudioStreamer: uplink resampler (pumpUplinkChunks).                     *)
(***************************************************************************)
\* CHUNK_FRAMES = Math.floor((TARGET_SR * CHUNK_MS) / 1000)
CHUNK_FRAMES(c) == FloorDiv(c.targetSr * c.frameMs, 1000)

\* clamp to [-1, 1], then
\* out[i] = (clamped < 0 ? clamped * 32768 : clamped * 32767) | 0
AsQuantize(c, s) ==
    LET clamped == Max(-c.targetSr, Min(c.targetSr, s))
    IN  ToInt16(TruncDiv(clamped * (IF clamped < 0 THEN 32768 ELSE 32767), c.targetSr))

\* the sample interpolated at cursor rp of inBuf
AsInterpolate(c, inBuf, rp) ==
    LET i0 == FloorDiv(rp, c.targetSr)
        i1 == i0 + 1
        frac == rp - i0 * c.targetSr
        s0 == JsOr(At(inBuf, i0), 0)
        s1 == JsOr(At(inBuf, i1), 0)
    IN  s0 * c.targetSr + (s1 - s0) * frac

\* Math.floor(readPtr + CHUNK_FRAMES * ratio + 1)
AsMinNeeded(c, rat, rp) == FloorDiv(rp + CHUNK_FRAMES(c) * rat + c.targetSr, c.targetSr)

\* the while loop: one chunk per turn, the consumed input dropped (reads:
\* per chunk, the highest index i1 read, the length of inBuf it was read
\* from, and the samples dropped after the chunk)
RECURSIVE AsPumpLoop(_, _, _)
AsPumpLoop(c, rat, st) ==
    IF Len(st.inBuf) < AsMinNeeded(c, rat, st.readPtr) THEN st
    ELSE LET res == [i \in 1 .. CHUNK_FRAMES(c) |->
                        AsInterpolate(c, st.inBuf, st.readPtr + (i - 1) * rat)]
             out == [i \in 1 .. CHUNK_FRAMES(c) |-> AsQuantize(c, res[i])]
             rp == st.readPtr + CHUNK_FRAMES(c) * rat
             consumed == FloorDiv(rp, c.targetSr)
         IN  AsPumpLoop(c, rat,
                 [inBuf |-> SubSeq(st.inBuf, consumed + 1, Len(st.inBuf)),
                  readPtr |-> rp - consumed * c.targetSr,
                  res |-> st.res \o res,
                  sent |-> Append(st.sent, out),
                  reads |-> Append(st.reads,
                      [i1 |-> FloorDiv(st.readPtr + (CHUNK_FRAMES(c) - 1) * rat, c.targetSr) + 1,
                       len |-> Len(st.inBuf),
                       consumed |-> consumed])])

\* pumpUplinkChunks with the socket open: the chunks sent and the state saved
AsPump(c, rat, inBuf, rp) ==
    AsPumpLoop(c, rat, [inBuf |-> inBuf, readPtr |-> rp, res |-> << >>, sent |-> << >>,
                        reads |-> << >>])

\* ws.send of every chunk of `frames` on socket i: queued while it is open,
\* discarded while it is closing or closed
SendAll(i, frames) ==
    IF sockets[i].state = "OPEN"
    THEN [sockets EXCEPT ![i].log = @ \o [k \in 1 .. Len(frames) |-> BinaryMsg(frames[k])]]
    ELSE sockets

\* node.port.onmessage: one capture batch f32 reaches the main thread
AsPortMessage(f32) ==
    /\ client = "AudioStreamer"
    /\ node
    /\ f32 # << >>
    /\ micHist' = micHist \o f32
    /\ LET merged == asInBuf \o f32
           st == AsPump(cfg, ratio, merged, readPtr)
       IN  IF wsRef = 0 \/ ~wsOpenRef
           THEN \* pumpUplinkChunks returns at once
                /\ asInBuf' = merged
                /\ UNCHANGED << readPtr, sockets, resampled, framesOut, sentInTts >>
           ELSE IF st.sent # << >> /\ sockets[wsRef].state = "CONNECTING"
           THEN \* ws.send throws InvalidStateError: nothing is sent or saved
                /\ asInBuf' = merged
                /\ UNCHANGED << readPtr, sockets, resampled, framesOut, sentInTts >>
           ELSE /\ asInBuf' = st.inBuf
                /\ readPtr' = st.readPtr
                /\ sockets' = SendAll(wsRef, st.sent)
                /\ resampled' = resampled \o st.res
                /\ framesOut' = framesOut \o st.sent
                /\ sentInTts' = IF ttsActive /\ sockets[wsRef].state = "OPEN"
                                THEN sentInTts + Len(st.sent) ELSE sentInTts
    /\ UNCHANGED << sessVars, vaVars, wsRef, running, pc, node, port, pdVars, vcVars,
                    wsOpenRef, ratio, ttsActive, ttsRate, playVars, auxVars, micLive >>

(***************************************************************************)
(* AudioStreamer: downlink playback (schedulePcmChunk).  Times are whole   *)
(* ticks of 1 / TicksPerSec s.  A chunk handed to src.start is recorded as *)
(*   [when, dur]  the start on the context's clock and the duration,       *)
(*   kind         "first": the clock was null; "snap": it was behind;      *)
(*                "reset": taken from a clock tts.start had just reset;    *)
(*                "cont": taken from the clock the chunk before advanced.  *)
(***************************************************************************)
MaxTime == 5     \* the audio clock is followed for MaxTime ticks
MaxPlay == 2     \* chunks scheduled in one behaviour
MaxAwait == 1    \* tts.start handlers suspended at the same time

\* the value of playbackTimeRef.current when it is null
Null == 0 - 1

\* ticks per second: one tick is 20 ms
TicksPerSec == 50
\* (variant: the lookahead is subtracted)
LOOKAHEAD_SEC_Past == 0 - 3
\* const LOOKAHEAD_SEC = 0.06
LOOKAHEAD_SEC == 3
\* const CATCHUP_MARGIN = 0.02
CATCHUP_MARGIN == 1

\* byteLength of the binary messages the server sends: too short, odd, and
\* 20 ms and 40 ms of PCM16 at the declared rate
DownBytes == {2, 3, 80, 160}

\* actx.currentTime
AsCurrentTime == now

\* if (!buffer || buffer.byteLength < 4 || buffer.byteLength % 2 !== 0) return
AsChunkValid(bytes) == ~(bytes < 4 \/ bytes % 2 # 0)

\* rate = ttsActiveRef.current ? ttsRateRef.current : TARGET_SR
AsChunkRate == IF ttsActive THEN ttsRate ELSE cfg.targetSr

\* audioBuffer.duration = pcm.length / rate, in ticks
AsDuration(bytes, rate) == ((bytes \div 2) * TicksPerSec) \div rate

\* the clock is null or behind now + CATCHUP_MARGIN
AsBehind(clock, t) == clock = Null \/ clock < t + CATCHUP_MARGIN

\* (variant: a clock that fell behind is not snapped forward)
AsChunkStart_NoCatchup(clock, t) ==
    IF clock = Null THEN t + LOOKAHEAD_SEC ELSE clock

\* `when`: playbackTimeRef after the null / catch-up test
AsChunkStart(clock, t) ==
    IF AsBehind(clock, t) THEN t + LOOKAHEAD_SEC ELSE clock

\* (variant: the clock is advanced by one tick too many)
AsClockAfter_Gap(when, dur) == when + dur + 1

\* playbackTimeRef.current += duration
AsClockAfter(when, dur) == when + dur

AsChunkKind(clock, t) ==
    IF clock = Null THEN "first"
    ELSE IF AsBehind(clock, t) THEN "snap"
    ELSE IF clockSetBy = "reset" THEN "reset"
    ELSE "cont"

\* ws.onmessage of socket i, a binary message: schedulePcmChunk(ev.data)
AsBinary(i, bytes) ==
    /\ client = "AudioStreamer"
    /\ i \in 1 .. Len(sockets)
    /\ sockets[i].state \in {"OPEN", "CLOSING"}
    /\ bytes \in DownBytes
    /\ IF ~AsChunkValid(bytes) \/ ~audioCtxRef
       THEN UNCHANGED << playbackTimeRef, clockSetBy, scheduled >>
       ELSE LET t == AsCurrentTime
                when == AsChunkStart(playbackTimeRef, t)
                dur == AsDuration(bytes, AsChunkRate)
            IN  /\ Len(scheduled) < MaxPlay
                /\ scheduled' = Append(scheduled,
                        [when |-> when, dur |-> dur,
                         kind |-> AsChunkKind(playbackTimeRef, t)])
                /\ playbackTimeRef' = AsClockAfter(when, dur)
                /\ clockSetBy' = "chunk"
    /\ UNCHANGED << sessVars, vaVars, wsVars, running, pc, node, port, histVars, pdVars, vcVars,
                    wsOpenRef, upVars, ttsVars, now, audioCtxRef, ttsAwait,
                    auxVars, micLive >>

\* the clock of the context in audioCtxRef advances by one tick
AsTimePasses ==
    /\ client = "AudioStreamer"
    /\ audioCtxRef
    /\ now < MaxTime
    /\ now' = now + 1
    /\ UNCHANGED << sessVars, vaVars, wsVars, running, pc, node, port, histVars, pdVars, vcVars,
                    wsOpenRef, upVars, ttsVars, audioCtxRef, playbackTimeRef,
                    clockSetBy, scheduled, ttsAwait, auxVars, micLive >>

\* audioCtxRef.current = new AudioContext(): its currentTime starts at 0 and
\* nothing is scheduled on it (the context that was there, if any, is
\* neither closed nor referenced any more)
AsNewContext ==
    /\ audioCtxRef' = TRUE
    /\ now' = 0
    /\ scheduled' = << >>

\* ensureAudioContext, up to its await
AsEnsureAudioContext ==
    IF audioCtxRef THEN UNCHANGED << audioCtxRef, now, scheduled >> ELSE AsNewContext

(***************************************************************************)
(* AudioStreamer: session and WebSocket handlers.                          *)
(***************************************************************************)
\* {type: "audio_format", format: "pcm_s16le", rate: TARGET_SR, channels: 1,
\*  chunk_ms: CHUNK_MS}
AsAudioFormat == TextMsg("audio_format", cfg.targetSr, cfg.frameMs)

\* stop(): the graph and the microphone are released, the socket closed if
\* wsOpenRef says it is open, every ref reset
AsStopEffect ==
    /\ node' = FALSE
    /\ sockets' = IF wsRef # 0 /\ wsOpenRef THEN Close(sockets, wsRef) ELSE sockets
    /\ wsRef' = 0
    /\ wsOpenRef' = FALSE
    /\ asInBuf' = << >>
    /\ readPtr' = 0
    /\ ratio' = cfg.targetSr
    /\ ttsActive' = FALSE
    /\ running' = FALSE
    \* audioCtxRef.current?.close(): what it had scheduled is never played
    /\ audioCtxRef' = FALSE
    /\ now' = 0
    /\ scheduled' = << >>
    /\ playbackTimeRef' = Null
    /\ clockSetBy' = "none"
    \* streamRef.current?.getTracks().forEach((t) => t.stop())
    /\ micLive' = IF streamRef THEN micLive - 1 ELSE micLive
    /\ streamRef' = FALSE

\* the Start button (rendered while not running): start up to getUserMedia
AsStart ==
    /\ client = "AudioStreamer"
    /\ ~running
    /\ pc = <<"idle", 0>>
    /\ Len(sockets) < MaxSockets
    /\ sockets' = Append(sockets, StartSocket(running))
    /\ wsRef' = Len(sockets) + 1
    /\ pc' = <<"mic", 0>>
    /\ UNCHANGED << sessVars, vaVars, running, node, port, histVars, pdVars, vcVars, asVars >>

\* the Start button pressed again while a start call is suspended at an
\* await: `running` is set only at the end of start, so `if (running) return`
\* lets the new call through; it makes its own socket and overwrites wsRef
AsStartAgain ==
    /\ client = "AudioStreamer"
    /\ ~running
    /\ pc # <<"idle", 0>> /\ pc2 = <<"idle", 0>>
    /\ Len(sockets) < MaxSockets + MaxOverlap
    /\ sockets' = Append(sockets, StartSocket(running))
    /\ wsRef' = Len(sockets) + 1
    /\ pc2' = pc
    /\ pc' = <<"mic", 0>>
    /\ UNCHANGED << sessVars, vaVars, running, node, port, histVars, pdVars, vcVars,
                    wsOpenRef, upVars, ttsVars, playVars, uncaught, micLive >>

\* getUserMedia resolves; the AudioContext is made and addModule awaited
AsMicGranted ==
    /\ client = "AudioStreamer"
    /\ pc = <<"mic", 0>>
    /\ micLive < MaxMics
    /\ pc' = <<"module", 0>>
    /\ streamRef' = TRUE
    /\ micLive' = micLive + 1
    /\ AsNewContext
    /\ UNCHANGED << sessVars, vaRest, wsVars, running, node, port, histVars, pdVars, vcVars,
                    wsOpenRef, upVars, ttsVars, playbackTimeRef, clockSetBy, ttsAwait,
                    auxVars >>

\* getUserMedia rejects: the catch block runs stop()
AsMicDenied ==
    /\ client = "AudioStreamer"
    /\ pc = <<"mic", 0>>
    /\ pc' = <<"idle", 0>>
    /\ AsStopEffect
    /\ UNCHANGED << sessVars, vaRest, port, histVars, pdVars, vcVars, ttsRate, sentInTts,
                    ttsAwait, auxVars >>

\* addModule rejects (or a later line of the try block throws): the catch
\* block runs stop()
AsModuleFailed ==
    /\ client = "AudioStreamer"
    /\ pc = <<"module", 0>>
    /\ pc' = <<"idle", 0>>
    /\ AsStopEffect
    /\ UNCHANGED << sessVars, vaRest, port, histVars, pdVars, vcVars, ttsRate, sentInTts,
                    ttsAwait, auxVars >>

\* addModule resolves: the probe node is connected, ratioRef set, running = true
AsModuleLoaded ==
    /\ client = "AudioStreamer"
    /\ pc = <<"module", 0>>
    /\ pc' = <<"idle", 0>>
    /\ node' = TRUE
    /\ ratio' = cfg.sampleRate
    /\ running' = TRUE
    /\ UNCHANGED << sessVars, vaVars, wsVars, port, histVars, pdVars, vcVars,
                    wsOpenRef, asInBuf, readPtr, ttsVars, playVars, auxVars, micLive >>

\* the Stop button (rendered while running)
AsStop ==
    /\ client = "AudioStreamer"
    /\ running
    /\ AsStopEffect
    /\ UNCHANGED << sessVars, vaRest, pc, port, histVars, pdVars, vcVars, ttsRate, sentInTts,
                    ttsAwait, auxVars >>

\* ws.onopen of socket i: wsOpenRef, then the audio_format handshake on it
AsWsOpen(i) ==
    /\ client = "AudioStreamer"
    /\ i \in 1 .. Len(sockets)
    /\ sockets[i].state = "CONNECTING"
    /\ sockets' = [Send(i, AsAudioFormat) EXCEPT ![i].state = "OPEN"]
    /\ wsOpenRef' = TRUE
    /\ UNCHANGED << sessVars, vaVars, wsRef, running, pc, node, port, histVars, pdVars, vcVars,
                    upVars, ttsVars, playVars, auxVars, micLive >>

\* ws.onclose of socket i
AsWsClose(i) ==
    /\ client = "AudioStreamer"
    /\ i \in 1 .. Len(sockets)
    /\ sockets[i].state # "CLOSED"
    /\ sockets' = [sockets EXCEPT ![i].state = "CLOSED"]
    /\ wsOpenRef' = FALSE
    /\ UNCHANGED << sessVars, vaVars, wsRef, running, pc, node, port, histVars, pdVars, vcVars,
                    upVars, ttsVars, playVars, auxVars, micLive >>

\* ws.onmessage of socket i, {"type":"tts.start","rate":rate}, up to
\* `await ensureAudioContext()`
AsTtsStart(i, rate) ==
    /\ client = "AudioStreamer"
    /\ i \in 1 .. Len(sockets)
    /\ sockets[i].state \in {"OPEN", "CLOSING"}
    /\ ttsAwait < MaxAwait
    /\ ttsRate' = JsOr(rate, cfg.targetSr)
    /\ ttsActive' = TRUE
    /\ sentInTts' = 0
    /\ AsEnsureAudioContext
    /\ ttsAwait' = ttsAwait + 1
    /\ UNCHANGED << sessVars, vaVars, wsVars, running, pc, node, port, histVars, pdVars, vcVars,
                    wsOpenRef, upVars, playbackTimeRef, clockSetBy, auxVars, micLive >>

\* the tts.start handler after its await: the clock is reset to
\* actx.currentTime + LOOKAHEAD_SEC.  After a stop() audioCtxRef.current is
\* null and reading its currentTime throws inside the async handler
AsTtsResumed ==
    /\ client = "AudioStreamer"
    /\ ttsAwait > 0
    /\ ttsAwait' = ttsAwait - 1
    /\ IF audioCtxRef
       THEN /\ playbackTimeRef' = AsCurrentTime + LOOKAHEAD_SEC
            /\ clockSetBy' = "reset"
            /\ UNCHANGED uncaught
       ELSE /\ uncaught' = TRUE
            /\ UNCHANGED << playbackTimeRef, clockSetBy >>
    /\ UNCHANGED << sessVars, vaVars, wsVars, running, pc, node, port, histVars, pdVars, vcVars,
                    wsOpenRef, upVars, ttsVars, now, audioCtxRef, scheduled, pc2,
                    micLive >>

\* ws.onmessage of socket i, a text message that is not JSON: JSON.parse
\* throws in the async handler, outside any try block, and the rejection of
\* the handler's promise is handled nowhere
AsBadJson(i) ==
    /\ client = "AudioStreamer"
    /\ i \in 1 .. Len(sockets)
    /\ sockets[i].state \in {"OPEN", "CLOSING"}
    /\ uncaught' = TRUE
    /\ UNCHANGED << sessVars, vaVars, wsVars, running, pc, node, port, histVars, pdVars, vcVars,
                    wsOpenRef, upVars, ttsVars, playVars, pc2, micLive >>

\* ws.onmessage of socket i, {"type":"tts.end"}
AsTtsEnd(i) ==
    /\ client = "AudioStreamer"
    /\ i \in 1 .. Len(sockets)
    /\ sockets[i].state \in {"OPEN", "CLOSING"}
    /\ ttsActive' = FALSE
    /\ UNCHANGED << sessVars, vaVars, wsVars, running, pc, node, port, histVars, pdVars, vcVars,
                    wsOpenRef, upVars, ttsRate, sentInTts, playVars, auxVars, micLive >>

(***************************************************************************)
(* VoiceAgent: voice-activity detector (vadLoop / tick).                   *)
(***************************************************************************)
NfScale == 4           \* the noise floor is kept in units of 1 / NfScale, rounded down
MaxChunks == 2         \* MediaRecorder chunks delivered in one behaviour
MaxSpeakFrames == 15   \* the speech accumulator stays below MaxSpeakFrames + 1 frames
MaxDrift == 16         \* and within MaxDrift roundings (2^-48 ms each) of a whole number of frames

\* rms values the analyser reports (0 .. 128)
RmsLevels == {0, 3}

VAD_HOLD_MS == 200
VAD_SPEECH_FACTOR == 25     \* 2.5, in tenths
VAD_DECAY == 98             \* 0.98, in hundredths
VAD_RISE == 25              \* 0.25, in hundredths
INITIAL_NOISE_FLOOR == 200  \* useRef(200)

\* noiseFloorRef after a tick that measured rms:
\*   noiseFloor = Math.max(1, noiseFloor * VAD_DECAY);
\*   if (rms < noiseFloor) noiseFloor = noiseFloor * (1 - VAD_RISE) + rms * VAD_RISE
NoiseFloorStep(nf, rms) ==
    LET decayed == Max(1 * NfScale, FloorDiv(nf * VAD_DECAY, 100))
    IN  IF rms * NfScale < decayed
        THEN FloorDiv(decayed * (100 - VAD_RISE) + rms * NfScale * VAD_RISE, 100)
        ELSE decayed

\* speech = rms >= noiseFloor * VAD_SPEECH_FACTOR
IsSpeech(nf, rms) == rms * NfScale * 10 >= nf * VAD_SPEECH_FACTOR

(***************************************************************************)
(* speakingMsRef is an IEEE-754 double that only ever receives             *)
(*   x += 1000 / 60      and      x = Math.max(0, x - 2 * (1000 / 60)).    *)
(* 1000 / 60 is the double SpeakT * 2^-48 with SpeakT = 4691249611844267,  *)
(* and 2 * (1000 / 60) is exact.  A value of the accumulator is written    *)
(*   (k * SpeakT + d) * 2^-48                                              *)
(* with k the net number of frames and d the accumulated rounding.  The    *)
(* result of each operation is rounded to the nearest double, ties to the  *)
(* even mantissa; the doubles near k * SpeakT * 2^-48 are spaced           *)
(* SpeakUlp(k) * 2^-48 apart.  Only SpeakT mod 32 is needed for that.      *)
(***************************************************************************)
SpeakTMod32 == 11
\* 200 - 12 * (1000 / 60), in units of 2^-48: 200 * 2^48 - 12 * SpeakT
HoldGap == -4

SpeakUlp(k) ==
    IF k <= 1 THEN 1 ELSE IF k <= 3 THEN 2 ELSE IF k <= 7 THEN 4 ELSE IF k <= 15 THEN 8 ELSE 16

\* the double nearest to (k * SpeakT + x) * 2^-48, as its d
SpeakRound(k, x) ==
    LET g == SpeakUlp(k)
        r == (k * SpeakTMod32 + x) % g
        lo == x - r
        hi == lo + g
        loEven == ((k * SpeakTMod32 + lo) % (2 * g)) \div g = 0
    IN  IF r = 0 THEN x
        ELSE IF 2 * r < g THEN lo
        ELSE IF 2 * r > g THEN hi
        ELSE IF loEven THEN lo ELSE hi

\* speakingMsRef.current += 1000 / 60
SpeakAdd(a) == [k |-> a.k + 1, d |-> SpeakRound(a.k + 1, a.d)]

\* (variant: the decay takes one frame duration off, as the increment adds)
SpeakDecay_OneFrame(a) ==
    IF a.k < 1 THEN [k |-> 0, d |-> 0]
    ELSE IF a.k = 1 THEN [k |-> 0, d |-> Max(0, a.d)]
    ELSE [k |-> a.k - 1, d |-> SpeakRound(a.k - 1, a.d)]

\* speakingMsRef.current = Math.max(0, speakingMsRef.current - 2 * (1000 / 60))
SpeakDecay(a) ==
    IF a.k < 2 THEN [k |-> 0, d |-> 0]
    ELSE IF a.k = 2 THEN [k |-> 0, d |-> Max(0, a.d)]
    ELSE [k |-> a.k - 2, d |-> SpeakRound(a.k - 2, a.d)]

\* speakingMsRef.current >= VAD_HOLD_MS
AtLeastHold(a) == a.k > 12 \/ (a.k = 12 /\ a.d >= HoldGap)

\* (variant: level-triggered, bargeSentRef is not looked at)
VaBargeEdge_Level(speech, acc) == ttsPlayingRef /\ speech /\ AtLeastHold(acc)

\* if (speakingMsRef.current >= VAD_HOLD_MS && !bargeSentRef.current), inside
\* if (ttsPlayingRef.current) { if (speech) {
VaBargeEdge(speech, acc) == ttsPlayingRef /\ speech /\ AtLeastHold(acc) /\ ~bargeSentRef

\* (variant: the accumulator is not cleared outside remote playback)
VaSpeakingNext_NoReset(speech, acc) ==
    IF speech THEN SpeakAdd(acc) ELSE SpeakDecay(acc)

\* speakingMsRef after a tick: if (ttsPlayingRef.current) { += or decay }
\* else { speakingMsRef.current = 0 }
VaSpeakingNext(speech, acc) ==
    IF ~ttsPlayingRef THEN [k |-> 0, d |-> 0]
    ELSE IF speech THEN SpeakAdd(acc) ELSE SpeakDecay(acc)

\* one tick of vadLoop on a frame of the given rms
VaTick(rms) ==
    /\ client = "VoiceAgent"
    /\ vadLoops > 0
    /\ rms \in RmsLevels
    \* a loop whose analyser was disconnected reads silence
    /\ analyser \/ rms = 0
    /\ LET nf == NoiseFloorStep(noiseFloor, rms)
           speech == IsSpeech(nf, rms)
           acc == [k |-> speakK, d |-> speakD]
           next == VaSpeakingNext(speech, acc)
           edge == VaBargeEdge(speech, next)
       IN  /\ next.k <= MaxSpeakFrames
           /\ next.d <= MaxDrift /\ -next.d <= MaxDrift
           /\ noiseFloor' = nf
           /\ speakK' = next.k
           /\ speakD' = next.d
           /\ bargeSentRef' = (bargeSentRef \/ edge)
           /\ bargeIns' = IF edge THEN bargeIns + 1 ELSE bargeIns
           /\ status' = IF ~ttsPlayingRef THEN ""
                        ELSE IF edge THEN "barge-in sent" ELSE status
           /\ speechRun' = IF ~(ttsPlayingRef /\ speech) THEN 0
                           ELSE IF speechRun > 0 THEN speechRun + 1
                           ELSE IF speakK = 0 /\ speakD = 0 /\ ~bargeSentRef THEN 1
                           ELSE 0
    /\ UNCHANGED << sessVars, wsVars, running, pc, node, port, histVars, pdVars, vcVars,
                    asVars, isInitialized, streamRef, analyser, recorder, vadLoops,
                    canUploadRef, ttsPlayingRef, utterance, chunkLog, passed >>

(***************************************************************************)
(* VoiceAgent: tick as a function of the refs it reads and writes, the     *)
(* metering levels lastUserLevelRef and ttsLevelRef included.  Levels are  *)
(* kept in units of 1 / LevelScale, rounded down.  VaTick above is this    *)
(* function without the two levels.                                        *)
(***************************************************************************)
LevelScale == 20

\* Math.pow(rms / 50, 0.6) in units of 1 / LevelScale, rounded down: the
\* largest l with (l / 20)^5 <= (rms / 50)^3, i.e. 5 * l^5 <= 128 * rms^3
VaPow(rms) ==
    CHOOSE l \in 0 .. 2 * LevelScale :
        5 * l^5 <= 128 * rms^3 /\ 128 * rms^3 < 5 * (l + 1)^5

\* (variant: the level is not clamped)
VaLevel_NoClamp(rms) == VaPow(rms)

\* clamp(Math.pow(rms / 50, 0.6), 0, 1)
VaLevel(rms) == Max(0, Min(LevelScale, VaPow(rms)))

\* ttsLevelRef after a tick: *= 0.92 when idle; then, while playing and
\* below 0.4, ttsLevel * 0.9 + 0.35
VaTtsLevelNext(playing, lvl) ==
    LET idle == IF playing THEN lvl ELSE FloorDiv(lvl * 92, 100)
    IN  IF playing /\ idle * 10 < 4 * LevelScale
        THEN FloorDiv(idle * 90 + 35 * LevelScale, 100)
        ELSE idle

\* the refs as the component's useRef calls leave them, before any tick
VaRefs0 ==
    [noiseFloor |-> INITIAL_NOISE_FLOOR * NfScale, speakK |-> 0, speakD |-> 0,
     ttsPlaying |-> FALSE, bargeSent |-> FALSE, lastUserLevel |-> 0, ttsLevel |-> 0,
     rms |-> Null, speech |-> FALSE, edge |-> FALSE]

\* tick on a frame of the given rms: the refs after it, with the frame's rms,
\* its speech decision and whether the barge-in edge fired
VaTickRefs(r, rms) ==
    LET nf == NoiseFloorStep(r.noiseFloor, rms)
        speech == IsSpeech(nf, rms)
        acc == [k |-> r.speakK, d |-> r.speakD]
        next == IF ~r.ttsPlaying THEN [k |-> 0, d |-> 0]
                ELSE IF speech THEN SpeakAdd(acc) ELSE SpeakDecay(acc)
        edge == r.ttsPlaying /\ speech /\ AtLeastHold(next) /\ ~r.bargeSent
    IN  [noiseFloor |-> nf, speakK |-> next.k, speakD |-> next.d,
         ttsPlaying |-> r.ttsPlaying, bargeSent |-> (r.bargeSent \/ edge),
         lastUserLevel |-> VaLevel(rms),
         ttsLevel |-> VaTtsLevelNext(r.ttsPlaying, r.ttsLevel),
         rms |-> rms, speech |-> speech, edge |-> edge]

\* no tick function under study
MeterIdle == [a |-> VaRefs0, b |-> VaRefs0, n |-> 0]

(***************************************************************************)
(* VoiceAgent: session, upload gate and WebSocket handlers.  The source    *)
(* keeps connectWS and its call commented out ("DISABLED FOR UI TESTING"); *)
(* they are modelled as written there.  The upload behind the gate is      *)
(* commented out too: `passed` records the chunks that get past the gate.  *)
(***************************************************************************)
\* {type: "client_ready"}
VaClientReady == TextMsg("client_ready", 0, 0)

\* the retry button is rendered for these status texts
VaRetryShown == status \in {"Microphone permission denied", "Microphone not supported"}

\* initializeVoice up to getUserMedia: from the mount effect, or from the
\* retry button
VaInitializeVoice ==
    /\ client = "VoiceAgent"
    /\ ~isInitialized /\ ~running
    /\ pc = <<"mount", 0>> \/ (pc = <<"idle", 0>> /\ VaRetryShown)
    /\ pc' = <<"mic", 0>>
    /\ status' = "Initializing..."
    /\ UNCHANGED << sessVars, wsVars, running, node, port, histVars, pdVars, vcVars, asVars,
                    isInitialized, streamRef, analyser, recorder, vadLoops,
                    gateVars, vadVars, vaHist >>

\* getUserMedia resolves: the stream is kept, isInitialized set, and start()
\* is called through the closure of the render that began initializeVoice,
\* where isInitialized is false: that start() returns at its first line
VaMicGranted ==
    /\ client = "VoiceAgent"
    /\ pc = <<"mic", 0>>
    /\ pc' = <<"idle", 0>>
    /\ streamRef' = TRUE
    /\ micLive' = micLive + 1
    /\ isInitialized' = TRUE
    /\ status' = "Ready"
    /\ UNCHANGED << sessVars, wsVars, running, node, port, histVars, pdVars, vcVars,
                    wsOpenRef, upVars, ttsVars, playVars, auxVars,
                    analyser, recorder, vadLoops, gateVars, vadVars, vaHist >>

\* getUserMedia rejects
VaMicDenied(err) ==
    /\ client = "VoiceAgent"
    /\ pc = <<"mic", 0>>
    /\ err \in {"Microphone permission denied", "Microphone not supported"}
    /\ pc' = <<"idle", 0>>
    /\ status' = err
    /\ UNCHANGED << sessVars, wsVars, running, node, port, histVars, pdVars, vcVars, asVars,
                    isInitialized, streamRef, analyser, recorder, vadLoops,
                    gateVars, vadVars, vaHist >>

\* the Start button (rendered while not running and initialized): start()
VaStart ==
    /\ client = "VoiceAgent"
    /\ ~running /\ isInitialized
    /\ IF ~streamRef
       THEN /\ status' = "No audio stream available"
            /\ UNCHANGED << wsVars, running, analyser, recorder, vadLoops, gateVars,
                            speechRun >>
       ELSE /\ Len(sockets) < MaxSockets
            /\ sockets' = Append(sockets, StartSocket(running))
            /\ wsRef' = Len(sockets) + 1
            /\ analyser' = TRUE
            /\ recorder' = "recording"
            /\ canUploadRef' = TRUE
            /\ ttsPlayingRef' = FALSE
            /\ bargeSentRef' = FALSE
            /\ vadLoops' = vadLoops + 1
            /\ running' = TRUE
            /\ status' = "Listening..."
            /\ speechRun' = 0
    /\ UNCHANGED << sessVars, pc, node, port, histVars, pdVars, vcVars, asVars,
                    isInitialized, streamRef, vadVars, utterance, chunkLog, passed, bargeIns >>

\* the Stop button (rendered while running): stop().  cancelAnimationFrame
\* is given rafRef, which only the draw loop writes: the VAD loop goes on
VaStop ==
    /\ client = "VoiceAgent"
    /\ running
    /\ recorder' = IF recorder = "recording" THEN "flushing" ELSE recorder
    /\ analyser' = FALSE
    /\ micLive' = IF streamRef THEN micLive - 1 ELSE micLive
    /\ streamRef' = FALSE
    /\ sockets' = IF wsRef # 0 /\ wsOpenRef THEN Close(sockets, wsRef) ELSE sockets
    /\ wsRef' = 0
    /\ wsOpenRef' = FALSE
    /\ canUploadRef' = FALSE
    /\ ttsPlayingRef' = FALSE
    /\ bargeSentRef' = FALSE
    /\ running' = FALSE
    /\ status' = "Stopped"
    /\ speechRun' = 0
    /\ UNCHANGED << sessVars, pc, node, port, histVars, pdVars, vcVars, upVars, ttsVars,
                    playVars, auxVars,
                    isInitialized, vadLoops, vadVars, utterance, chunkLog, passed, bargeIns >>

\* where the session is: in remote playback ("playing"), running with tts_end
\* the server's last word ("ended"), or neither
VaPhase ==
    IF ttsPlayingRef THEN "playing"
    ELSE IF running /\ utterance = "ended" THEN "ended"
    ELSE "other"

\* (variant: no gate)
VaGateOpen_Always == TRUE

\* if (!canUploadRef.current) return
VaGateOpen == canUploadRef

\* rec.ondataavailable: one chunk of `size` bytes; empty chunks and chunks
\* that meet a closed gate are dropped, the others go on to the upload
VaDataAvailable(size) ==
    /\ client = "VoiceAgent"
    /\ recorder \in {"recording", "flushing"}
    /\ size \in {0, 1}
    /\ Len(chunkLog) < MaxChunks
    /\ chunkLog' = Append(chunkLog, size)
    /\ passed' = IF size # 0 /\ VaGateOpen THEN Append(passed, Len(chunkLog) + 1)
                 ELSE passed
    /\ recorder' = IF recorder = "flushing" THEN "inactive" ELSE recorder
    /\ UNCHANGED << sessVars, wsVars, running, pc, node, port, histVars, pdVars, vcVars,
                    asVars, isInitialized, status, streamRef, analyser, vadLoops,
                    gateVars, vadVars, utterance, bargeIns, speechRun >>

\* ws.onopen of socket i
VaWsOpen(i) ==
    /\ client = "VoiceAgent"
    /\ i \in 1 .. Len(sockets)
    /\ sockets[i].state = "CONNECTING"
    /\ sockets' = [Send(i, VaClientReady) EXCEPT ![i].state = "OPEN"]
    /\ wsOpenRef' = TRUE
    /\ connected' = TRUE
    /\ UNCHANGED << sessVars, vaVars, wsRef, running, pc, node, port, histVars, pdVars,
                    framesSent, framesDropped, delivered, upVars, ttsVars,
                    playVars, auxVars, micLive >>

\* ws.onclose of socket i
VaWsClose(i) ==
    /\ client = "VoiceAgent"
    /\ i \in 1 .. Len(sockets)
    /\ sockets[i].state # "CLOSED"
    /\ sockets' = [sockets EXCEPT ![i].state = "CLOSED"]
    /\ wsOpenRef' = FALSE
    /\ connected' = FALSE
    /\ UNCHANGED << sessVars, vaVars, wsRef, running, pc, node, port, histVars, pdVars,
                    framesSent, framesDropped, delivered, upVars, ttsVars,
                    playVars, auxVars, micLive >>

\* ws.onmessage of socket i, {"type":"tts_start"}
VaTtsStart(i) ==
    /\ client = "VoiceAgent"
    /\ i \in 1 .. Len(sockets)
    /\ sockets[i].state \in {"OPEN", "CLOSING"}
    /\ ttsPlayingRef' = TRUE
    /\ bargeSentRef' = FALSE
    /\ canUploadRef' = FALSE
    /\ utterance' = "speaking"
    /\ bargeIns' = 0
    /\ speechRun' = 0
    /\ UNCHANGED << sessVars, wsVars, running, pc, node, port, histVars, pdVars, vcVars,
                    asVars, isInitialized, status, streamRef, analyser, recorder, vadLoops,
                    vadVars, chunkLog, passed >>

\* ws.onmessage of socket i, {"type":"tts_end"}
VaTtsEnd(i) ==
    /\ client = "VoiceAgent"
    /\ i \in 1 .. Len(sockets)
    /\ sockets[i].state \in {"OPEN", "CLOSING"}
    /\ ttsPlayingRef' = FALSE
    /\ bargeSentRef' = FALSE
    /\ canUploadRef' = TRUE
    /\ utterance' = "ended"
    /\ bargeIns' = 0
    /\ speechRun' = 0
    /\ UNCHANGED << sessVars, wsVars, running, pc, node, port, histVars, pdVars, vcVars,
                    asVars, isInitialized, status, streamRef, analyser, recorder, vadLoops,
                    vadVars, chunkLog, passed >>

(***************************************************************************)
(* Specifications.                                                         *)
(***************************************************************************)
Configs ==
    {[sampleRate |-> r, targetSr |-> t, frameMs |-> f] :
        r \in NativeRates, t \in TargetRates, f \in FrameDurations}

InitIdle ==
    /\ sockets = << >>
    /\ wsRef = 0
    /\ running = FALSE
    /\ pc = <<"idle", 0>>
    /\ node = FALSE
    /\ port = << >>
    /\ micHist = << >>
    /\ resampled = << >>
    /\ framesOut = << >>
    /\ connected = FALSE
    /\ framesSent = 0
    /\ framesDropped = 0
    /\ delivered = 0

InitPd ==
    /\ pdInBuf = << >>
    /\ pdPos = 0
    /\ pdOutBuf = PdNew(cfg).outBuf
    /\ pdOutWrite = 0

InitAs ==
    /\ wsOpenRef = FALSE
    /\ asInBuf = << >>
    /\ readPtr = 0
    /\ ratio = cfg.targetSr
    /\ ttsActive = FALSE
    /\ ttsRate = cfg.targetSr
    /\ sentInTts = 0

InitDnRest ==
    /\ now = 0
    /\ audioCtxRef = FALSE
    /\ playbackTimeRef = Null
    /\ clockSetBy = "none"
    /\ scheduled = << >>
    /\ ttsAwait = 0
    /\ pc2 = <<"idle", 0>>
    /\ uncaught = FALSE
    /\ micLive = 0

InitDn ==
    /\ meter = MeterIdle
    /\ InitDnRest

InitVaRest ==
    /\ isInitialized = FALSE
    /\ status = ""
    /\ analyser = FALSE
    /\ recorder = "inactive"
    /\ vadLoops = 0
    /\ canUploadRef = FALSE
    /\ ttsPlayingRef = FALSE
    /\ bargeSentRef = FALSE
    /\ noiseFloor = INITIAL_NOISE_FLOOR * NfScale
    /\ speakK = 0
    /\ speakD = 0
    /\ utterance = "none"
    /\ chunkLog = << >>
    /\ passed = << >>
    /\ bargeIns = 0
    /\ speechRun = 0

InitVa ==
    /\ streamRef = FALSE
    /\ InitVaRest

\* VoiceClient mounted
InitVC ==
    /\ client = "VoiceClient"
    /\ cfg = VcConfig
    /\ InitIdle
    /\ InitPd
    /\ InitAs
    /\ InitDn
    /\ InitVa

NextVC ==
    \/ VcConnectWS
    \/ VcDisconnectWS
    \/ \E i \in 1 .. MaxSockets : VcWsOpen(i)
    \/ \E i \in 1 .. MaxSockets : VcWsClose(i)
    \/ \E i \in 1 .. MaxSockets : VcBadJson(i)
    \/ \E i \in 1 .. MaxSockets, level \in BufferedLevels : WsBuffered(i, level)
    \/ VcStartCapture
    \/ VcMicGranted
    \/ VcMicDenied
    \/ VcModuleFailed
    \/ VcModuleLoaded
    \/ VcStopCapture
    \/ Len(micHist) < MaxQuanta * RenderQuantum /\ PdProcess(SilentQuantum)
    \/ VcPortMessage

SpecVC == InitVC /\ [][NextVC]_vars

\* the 48 kHz -> 24 kHz / 40 ms pipeline of AudioStreamer, at 4 kHz -> 2 kHz / 1 ms
AsConfig == [sampleRate |-> 4000, targetSr |-> 2000, frameMs |-> 1]

\* sample rates a tts.start may declare (0: the field is missing)
TtsRates == {0, 2000}

\* AudioStreamer mounted
InitAS ==
    /\ client = "AudioStreamer"
    /\ cfg = AsConfig
    /\ InitIdle
    /\ InitPd
    /\ InitAs
    /\ InitDn
    /\ InitVa

NextAS ==
    \/ AsStart
    \/ AsMicGranted
    \/ AsMicDenied
    \/ AsModuleFailed
    \/ AsModuleLoaded
    \/ AsStop
    \/ \E i \in 1 .. MaxSockets : AsWsOpen(i)
    \/ \E i \in 1 .. MaxSockets : AsWsClose(i)
    \/ \E i \in 1 .. MaxSockets, rate \in TtsRates : AsTtsStart(i, rate)
    \/ AsTtsResumed
    \/ \E i \in 1 .. MaxSockets : AsTtsEnd(i)
    \/ \E i \in 1 .. MaxSockets : AsBadJson(i)
    \/ Len(micHist) < MaxQuanta * RenderQuantum /\ AsPortMessage(SilentQuantum)

SpecAS == InitAS /\ [][NextAS]_vars

\* AudioStreamer in a running session with its socket open, and its
\* downlink: the server's messages arrive at any time of the audio clock
InitPlay ==
    /\ client = "AudioStreamer"
    /\ meter = MeterIdle
    /\ cfg = AsConfig
    /\ sockets = << [StartSocket(FALSE) EXCEPT !.state = "OPEN", !.log = << AsAudioFormat >>] >>
    /\ wsRef = 1
    /\ running = TRUE
    /\ pc = <<"idle", 0>>
    /\ node = TRUE
    /\ port = << >>
    /\ micHist = << >>
    /\ resampled = << >>
    /\ framesOut = << >>
    /\ connected = FALSE
    /\ framesSent = 0
    /\ framesDropped = 0
    /\ delivered = 0
    /\ InitPd
    /\ wsOpenRef = TRUE
    /\ asInBuf = << >>
    /\ readPtr = 0
    /\ ratio = cfg.sampleRate
    /\ ttsActive = FALSE
    /\ ttsRate = cfg.targetSr
    /\ sentInTts = 0
    /\ now = 0
    /\ audioCtxRef = TRUE
    /\ playbackTimeRef = Null
    /\ clockSetBy = "none"
    /\ scheduled = << >>
    /\ ttsAwait = 0
    /\ pc2 = <<"idle", 0>>
    /\ uncaught = FALSE
    /\ micLive = 1
    /\ streamRef = TRUE
    /\ InitVaRest

NextPlay ==
    \/ AsStop
    \/ \E i \in 1 .. MaxSockets, rate \in TtsRates : AsTtsStart(i, rate)
    \/ AsTtsResumed
    \/ \E i \in 1 .. MaxSockets : AsTtsEnd(i)
    \/ \E i \in 1 .. MaxSockets, bytes \in DownBytes : AsBinary(i, bytes)
    \/ AsTimePasses

SpecPlay == InitPlay /\ [][NextPlay]_vars

\* either WebSocket client from its mount, with start calls that overlap
\* (and no failures)
NextOverlap ==
    \/ VcConnectWS
    \/ \E i \in 1 .. MaxSockets + MaxOverlap : VcWsOpen(i)
    \/ VcStartCapture
    \/ VcStartCaptureAgain
    \/ VcMicGranted
    \/ VcModuleLoaded
    \/ VcStopCapture
    \/ AsStart
    \/ AsStartAgain
    \/ AsMicGranted
    \/ AsModuleLoaded
    \/ AsStop
    \/ \E i \in 1 .. MaxSockets + MaxOverlap : AsWsOpen(i)
    \/ ResumeOther

SpecOverlap == (InitVC \/ InitAS) /\ [][NextOverlap]_vars

\* VoiceAgent mounted, its mount effect not yet run
InitVA ==
    /\ client = "VoiceAgent"
    /\ cfg = VcConfig
    /\ sockets = << >>
    /\ wsRef = 0
    /\ running = FALSE
    /\ pc = <<"mount", 0>>
    /\ node = FALSE
    /\ port = << >>
    /\ micHist = << >>
    /\ resampled = << >>
    /\ framesOut = << >>
    /\ connected = FALSE
    /\ framesSent = 0
    /\ framesDropped = 0
    /\ delivered = 0
    /\ InitPd
    /\ InitAs
    /\ InitDn
    /\ InitVa

NextVA ==
    \/ VaInitializeVoice
    \/ VaMicGranted
    \/ \E err \in {"Microphone permission denied", "Microphone not supported"} : VaMicDenied(err)
    \/ VaStart
    \/ VaStop
    \/ \E size \in {0, 1} : VaDataAvailable(size)
    \/ \E i \in 1 .. MaxSockets : VaWsOpen(i)
    \/ \E i \in 1 .. MaxSockets : VaWsClose(i)
    \/ \E i \in 1 .. MaxSockets : VaTtsStart(i)
    \/ \E i \in 1 .. MaxSockets : VaTtsEnd(i)
    \/ \E rms \in RmsLevels : VaTick(rms)

SpecVA == InitVA /\ [][NextVA]_vars

\* either WebSocket client from its mount
SpecSessions == (InitVC \/ InitAS) /\ [][NextVC \/ NextAS]_vars

\* a running session with its socket open, whichever client and rates
InitCaptureRest ==
    /\ meter = MeterIdle
    /\ sockets = << [NewSocket(FALSE) EXCEPT
                        !.state = "OPEN",
                        !.byStart = (client = "AudioStreamer"),
                        !.log = << IF client = "VoiceClient" THEN VcHello ELSE AsAudioFormat >>] >>
    /\ wsRef = 1
    /\ running = TRUE
    /\ pc = <<"idle", 0>>
    /\ node = TRUE
    /\ port = << >>
    /\ micHist = << >>
    /\ resampled = << >>
    /\ framesOut = << >>
    /\ connected = (client = "VoiceClient")
    /\ framesSent = 0
    /\ framesDropped = 0
    /\ delivered = 0
    /\ InitPd
    /\ wsOpenRef = (client = "AudioStreamer")
    /\ asInBuf = << >>
    /\ readPtr = 0
    /\ ratio = IF client = "AudioStreamer" THEN cfg.sampleRate ELSE cfg.targetSr
    /\ ttsActive = FALSE
    /\ ttsRate = cfg.targetSr
    /\ sentInTts = 0
    /\ now = 0
    /\ audioCtxRef = (client = "AudioStreamer")
    /\ playbackTimeRef = Null
    /\ clockSetBy = "none"
    /\ scheduled = << >>
    /\ ttsAwait = 0
    /\ pc2 = <<"idle", 0>>
    /\ uncaught = FALSE
    /\ micLive = 1
    /\ streamRef = TRUE
    /\ InitVaRest

\* either resampler in a running session with its socket open, fed arbitrary
\* batches at any of the rate pairs
InitCapture ==
    /\ client \in {"VoiceClient", "AudioStreamer"}
    /\ cfg \in IF client = "VoiceClient"
              THEN {c \in Configs : c.targetSr = VcConfig.targetSr /\ c.frameMs = VcConfig.frameMs}
              ELSE Configs
    /\ InitCaptureRest

NextCapture ==
    \/ \E ch0 \in Batches : Len(micHist) + Len(ch0) <= MaxInput /\ PdProcess(ch0)
    \/ VcPortMessage
    \/ \E f32 \in Batches : Len(micHist) + Len(f32) <= MaxInput /\ AsPortMessage(f32)

SpecCapture == InitCapture /\ [][NextCapture]_vars

(***************************************************************************)
(* Reference definitions for the resamplers.                               *)
(***************************************************************************)
\* the linear interpolation of x at absolute position k * ratio (times
\* cfg.targetSr), ratio = sampleRate / targetSr, k = 0, 1, 2, ...
LinearAt(c, x, k) ==
    LET p == k * c.sampleRate
        i == p \div c.targetSr
        frac == p % c.targetSr
    IN  IF frac = 0 THEN x[i + 1] * c.targetSr
        ELSE x[i + 1] * c.targetSr + (x[i + 2] - x[i + 1]) * frac

\* the resampled stream and the frames when the whole input arrives as one batch
OneBatch ==
    IF client = "VoiceClient"
    THEN LET st == PdProcessCall(cfg, PdNew(cfg), micHist)
         IN  [res |-> st.res, frames |-> st.posted]
    ELSE LET st == AsPump(cfg, cfg.sampleRate, micHist, 0)
         IN  [res |-> st.res, frames |-> st.sent]

C2_Interpolation ==
    \A k \in 1 .. Len(resampled) : resampled[k] = LinearAt(cfg, micHist, k - 1)


\* the rates and frame durations the source sets
SourceVcConfig == [sampleRate |-> 48000, targetSr |-> 16000, frameMs |-> 20]
SourceAsConfig == [sampleRate |-> 48000, targetSr |-> 24000, frameMs |-> 40]

\* C3 (frame size): every binary message on a socket carries exactly
\* N = rate * frameMs / 1000 samples, 2N bytes, of the format the handshake
\* of that socket declared; 320 samples / 640 bytes at 16 kHz / 20 ms and
\* 960 samples / 1920 bytes at 24 kHz / 40 ms.
C3_FrameSize ==
    /\ \A i \in 1 .. Len(sockets) : \A k \in 1 .. Len(sockets[i].log) :
          sockets[i].log[k].binary =>
              sockets[i].log[k].bytes =
                  2 * ((sockets[i].log[1].rate * sockets[i].log[1].ms) \div 1000)
    /\ \A f \in 1 .. Len(framesOut) :
          Len(framesOut[f]) = (cfg.targetSr * cfg.frameMs) \div 1000
    /\ OutSamplesPerFrame(SourceVcConfig) = 320
    /\ BinaryMsg([i \in 1 .. OutSamplesPerFrame(SourceVcConfig) |-> 0]).bytes = 640
    /\ CHUNK_FRAMES(SourceAsConfig) = 960
    /\ BinaryMsg([i \in 1 .. CHUNK_FRAMES(SourceAsConfig) |-> 0]).bytes = 1920

\* C3 witness: two binary messages were sent on a socket
C3_Witness ==
    \E i \in 1 .. Len(sockets) :
        Cardinality({k \in 1 .. Len(sockets[i].log) : sockets[i].log[k].binary}) >= 2

\* C4 (frame completeness): frames emitted times the frame length, plus the
\* samples held in the partial frame, is the number of samples resampled so
\* far; no emitted frame is short.
C4_FrameCompleteness ==
    client = "VoiceClient" =>
        /\ Len(framesOut) * OutSamplesPerFrame(cfg) + pdOutWrite = Len(resampled)
        /\ pdOutWrite < OutSamplesPerFrame(cfg)
        /\ \A f \in 1 .. Len(framesOut) : Len(framesOut[f]) = OutSamplesPerFrame(cfg)

\* C4 witness: a frame was emitted and a partial frame is held
C4_Witness ==
    /\ client = "VoiceClient"
    /\ Len(framesOut) >= 1
    /\ pdOutWrite > 0

\* C5 (handshake): on every connection exactly one handshake declaring the
\* uplink format is sent, and it precedes every binary frame on it: nothing
\* is sent on a socket before it opens, an opened socket's first message is
\* the handshake, and every later message is binary.
C5_HandshakeFirst ==
    \A i \in 1 .. Len(sockets) :
        LET log == sockets[i].log
        IN  /\ sockets[i].state = "CONNECTING" => log = << >>
            /\ sockets[i].state = "OPEN" => log # << >>
            /\ log # << >> =>
                  /\ ~log[1].binary
                  /\ log[1].type \in {"hello", "audio_format"}
                  /\ log[1].rate = cfg.targetSr /\ log[1].ms = cfg.frameMs
                  /\ \A k \in 2 .. Len(log) : log[k].binary

\* C5 witness: a socket carried its handshake and then two frames
C5_Witness ==
    \E i \in 1 .. Len(sockets) :
        /\ Len(sockets[i].log) >= 3
        /\ ~sockets[i].log[1].binary
        /\ sockets[i].log[3].binary

\* C6 (backpressure, VoiceClient): a frame that arrives while the socket is
\* open with bufferedAmount above 1,000,000 is not sent and not kept: the
\* dropped counter grows by one, the sent counter and the socket are
\* unchanged, the frame leaves the port, and the session keeps running.
C6_Backpressure ==
    [][(/\ client = "VoiceClient"
        /\ delivered' = delivered + 1
        /\ wsRef # 0
        /\ sockets[wsRef].state = "OPEN"
        /\ sockets[wsRef].buffered > 1000000)
       => (/\ framesDropped' = framesDropped + 1
           /\ framesSent' = framesSent
           /\ sockets' = sockets
           /\ port' = Tail(port)
           /\ running' = running /\ node' = node)]_vars

\* C6 witness: in a running session one frame was sent and a later one dropped
C6_Witness ==
    /\ client = "VoiceClient"
    /\ running /\ node
    /\ framesSent = 1
    /\ framesDropped = 1
    /\ wsRef # 0 /\ Len(sockets[wsRef].log) = 2

\* C8 (uplink gate, AudioStreamer): between tts.start and tts.end no uplink
\* audio frame is sent on the WebSocket.
C8_NoUplinkDuringTts ==
    sentInTts = 0

\* VAD_HOLD_MS / (1000 / 60): the frames of one hold time
HoldFrames == (VAD_HOLD_MS * 60) \div 1000

\* C7 (upload gate, VoiceAgent): from tts_start until tts_end the gate is
\* closed; a chunk delivered in that interval does not pass the gate, and no
\* chunk passes at any other time than its delivery; a non-empty chunk
\* delivered in a running session after tts_end passes.
C7_Gate ==
    /\ []((ttsPlayingRef \/ utterance = "speaking") => ~canUploadRef)
    /\ [][(Len(chunkLog') = Len(chunkLog) + 1 /\ VaPhase = "playing")
            => passed' = passed]_vars
    /\ [][passed' # passed
            => (/\ Len(chunkLog') = Len(chunkLog) + 1
                /\ passed' = Append(passed, Len(chunkLog')))]_vars
    /\ [][(/\ Len(chunkLog') = Len(chunkLog) + 1
            /\ VaPhase = "ended"
            /\ chunkLog'[Len(chunkLog')] # 0)
            => passed' = Append(passed, Len(chunkLog'))]_vars

\* C7 witness: of two non-empty chunks the first met the closed gate, the
\* second came after tts_end and passed
C7_Witness ==
    /\ chunkLog = <<1, 1>>
    /\ passed = <<2>>
    /\ running /\ utterance = "ended"

\* C9 (VAD hysteresis): a run of consecutive speech frames during remote
\* playback that began with the accumulator at zero and no barge-in sent has
\* triggered the barge-in exactly when it is HoldFrames = holdMs / frameMs
\* frames long or longer, and then exactly once.
C9_Hysteresis ==
    speechRun > 0 =>
        /\ bargeSentRef <=> speechRun >= HoldFrames
        /\ bargeIns = (IF speechRun >= HoldFrames THEN 1 ELSE 0)

\* C10 (edge trigger): within one remote utterance at most one barge-in is
\* emitted; during playback the trigger is armed exactly while none was
\* emitted in this utterance, so every tts_start re-arms it.
C10_EdgeTriggered ==
    /\ bargeIns <= 1
    /\ ttsPlayingRef => (bargeSentRef <=> bargeIns = 1)

\* C10 witness: after the barge-in the accumulator fell below the hold
\* threshold and crossed it again within the same utterance
C10_Witness ==
    /\ ttsPlayingRef
    /\ bargeIns = 1
    /\ speechRun = 0
    /\ AtLeastHold([k |-> speakK, d |-> speakD])

(***************************************************************************)
(* C11 (VoiceAgent): a tick of vadLoop evaluated while remote playback is  *)
(* not active leaves the speech accumulator at zero and emits no barge-in  *)
(* (no edge counted, bargeSentRef not raised), whatever rms the frame has. *)
(***************************************************************************)
C11_IdleTick ==
    [][(~ttsPlayingRef /\ \E rms \in RmsLevels : VaTick(rms))
         => /\ speakK' = 0 /\ speakD' = 0
            /\ bargeIns' = bargeIns
            /\ bargeSentRef' = bargeSentRef]_vars

\* an idle tick has run in a session whose utterance ended (only that tick
\* clears the status text), the floor being low enough for rms 3 to be speech
C11_Witness ==
    /\ client = "VoiceAgent" /\ running /\ ~ttsPlayingRef
    /\ utterance = "ended" /\ status = ""
    /\ IsSpeech(noiseFloor, 3)
    /\ speakK = 0 /\ speakD = 0 /\ ~bargeSentRef /\ bargeIns = 0

(***************************************************************************)
(* C12 (AudioStreamer): the playback windows [when, when + dur) of the     *)
(* chunks scheduled on one context do not overlap and their starts are in  *)
(* arrival order: each chunk ends no later than every later one starts.    *)
(***************************************************************************)
C12_NonOverlapping ==
    \A a, b \in 1 .. Len(scheduled) :
        a < b => scheduled[a].when + scheduled[a].dur <= scheduled[b].when

(***************************************************************************)
(* C13 (AudioStreamer): a chunk scheduled from the clock the chunk before  *)
(* it advanced (no catch-up snap, no reset of the clock in between) starts *)
(* exactly where that chunk ends.                                          *)
(***************************************************************************)
C13_BackToBack ==
    \A k \in 2 .. Len(scheduled) :
        scheduled[k].kind = "cont"
            => scheduled[k].when = scheduled[k - 1].when + scheduled[k - 1].dur

\* two chunks were scheduled back to back
C13_Witness ==
    /\ Len(scheduled) = 2
    /\ scheduled[2].kind = "cont"
    /\ scheduled[1].dur = 2

(***************************************************************************)
(* C14 (AudioStreamer): a chunk that finds the clock unset or below        *)
(* now + CATCHUP_MARGIN is scheduled at exactly now + LOOKAHEAD_SEC, any   *)
(* other chunk at the value of the clock; so every chunk starts at least   *)
(* CATCHUP_MARGIN after the moment it is scheduled, and a chunk that was   *)
(* delayed starts LOOKAHEAD_SEC ahead whatever the delays before it were.  *)
(***************************************************************************)
C14_CatchUp ==
    [][Len(scheduled') = Len(scheduled) + 1
         => LET c == scheduled'[Len(scheduled')]
                behind == playbackTimeRef = Null \/ playbackTimeRef < now + CATCHUP_MARGIN
            IN  /\ c.when = IF behind THEN now + LOOKAHEAD_SEC ELSE playbackTimeRef
                /\ c.when >= now + CATCHUP_MARGIN
                /\ c.kind = "snap" <=> (behind /\ playbackTimeRef # Null)]_vars

\* a chunk scheduled from the clock, then one that arrived late and was
\* snapped forward
C14_Witness ==
    /\ Len(scheduled) = 2
    /\ scheduled[1].kind = "reset"
    /\ scheduled[2].kind = "snap"
    /\ scheduled[2].when > scheduled[1].when + scheduled[1].dur

(***************************************************************************)
(* C15 (AudioStreamer): every step that writes the playback clock leaves   *)
(* it at or after now; the clock is found below now only because time      *)
(* passed since it was written (the interval that the catch-up of the next *)
(* chunk ends).                                                            *)
(***************************************************************************)
C15_ClockAhead ==
    [][/\ (playbackTimeRef' # Null /\ playbackTimeRef' # playbackTimeRef)
            => playbackTimeRef' >= now'
       /\ (playbackTimeRef' # Null /\ playbackTimeRef' < now'
             /\ ~(playbackTimeRef # Null /\ playbackTimeRef < now))
            => (now' = now + 1 /\ playbackTimeRef' = playbackTimeRef)]_vars

\* the clock fell behind after a chunk was scheduled, and no chunk has come since
C15_Witness ==
    /\ audioCtxRef
    /\ Len(scheduled) = 1
    /\ playbackTimeRef # Null
    /\ playbackTimeRef < now

(***************************************************************************)
(* C16 (VoiceClient, AudioStreamer): once a session is over (no capture    *)
(* running and no start call pending, whether after the Stop button or     *)
(* after a start that failed), no microphone stream is live and every      *)
(* socket that a start call made is closing or closed.                     *)
(***************************************************************************)
C16_Released ==
    (~running /\ pc = <<"idle", 0>> /\ pc2 = <<"idle", 0>>)
        => /\ micLive = 0
           /\ \A i \in 1 .. Len(sockets) :
                  sockets[i].byStart => sockets[i].state \in {"CLOSING", "CLOSED"}

(***************************************************************************)
(* C17 (VoiceClient, AudioStreamer): when the socket of a running session  *)
(* closes, the session stops in that very step: running becomes false,     *)
(* the capture node is dropped and the microphone released.                *)
(***************************************************************************)
C17_TransportFailure ==
    [][\A i \in 1 .. Len(sockets) :
          (running /\ i = wsRef /\ sockets[i].state # "CLOSED"
                   /\ sockets'[i].state = "CLOSED")
              => (~running' /\ ~node' /\ micLive' = 0)]_vars

(***************************************************************************)
(* C18 (VoiceClient, AudioStreamer): handling a text message that is not   *)
(* well-formed JSON lets no exception out of the handler and changes       *)
(* neither the running flag, the sockets, the remote-playback flag, the    *)
(* playback clock nor the gating flags.                                    *)
(***************************************************************************)
C18_MalformedIgnored ==
    [][(\E i \in 1 .. Len(sockets) : VcBadJson(i) \/ AsBadJson(i))
         => /\ uncaught' = uncaught
            /\ UNCHANGED << running, wsVars, wsOpenRef, ttsActive, ttsRate,
                            playbackTimeRef, gateVars >>]_vars

(***************************************************************************)
(* C19 (VoiceClient, AudioStreamer): whatever the order of start calls,    *)
(* their awaits and stop, at most one microphone stream is live, at most   *)
(* one socket is connecting or open, and a live socket is the one wsRef    *)
(* names whenever wsRef names one.                                         *)
(***************************************************************************)
C19_SingleSession ==
    LET live == {i \in 1 .. Len(sockets) : sockets[i].state \in {"CONNECTING", "OPEN"}}
    IN  /\ micLive <= 1
        /\ Cardinality(live) <= 1
        /\ \A i \in live : wsRef # 0 => wsRef = i

(***************************************************************************)
(* C21: after stop() in the voice-agent client the noise floor and the     *)
(* speech accumulator hold their initial values, 200 and 0: every stop()   *)
(* step ends with noiseFloorRef = 200 and speakingMsRef = 0.               *)
(***************************************************************************)
C21_DiscardedOnStop ==
    [][VaStop => /\ noiseFloor' = INITIAL_NOISE_FLOOR * NfScale
                 /\ speakK' = 0
                 /\ speakD' = 0]_vars

(***************************************************************************)
(* The tick function on its own: two runs fed the same frames and the same *)
(* tts_start / tts_end, which start with the same VAD refs and with any    *)
(* metering levels.                                                        *)
(***************************************************************************)
MaxMeterTicks == 2     \* ticks taken by the two runs

\* rms of the frames fed to both runs
MeterRms == {0, 3, 60}
\* values a tts_level message leaves in ttsLevelRef
MeterLevels == {0, 7, LevelScale}

RECURSIVE VaRepeat(_, _, _)
\* n ticks on frames of the same rms
VaRepeat(r, rms, n) == IF n = 0 THEN r ELSE VaRepeat(VaTickRefs(r, rms), rms, n - 1)

RECURSIVE VaQuiet(_)
\* silent frames until the noise floor stops moving
VaQuiet(r) ==
    LET n == VaTickRefs(r, 0)
    IN  IF n.noiseFloor = r.noiseFloor THEN n ELSE VaQuiet(n)

\* refs the component can hold when a tick runs: fresh; after a long silence;
\* then tts_start; then up to HoldFrames frames of speech; then one more (the
\* barge-in is sent); and tts_end after the HoldFrames frames
MeterStarts ==
    LET quiet == VaQuiet(VaRefs0)
        playing == [quiet EXCEPT !.ttsPlaying = TRUE]
        held == VaRepeat(playing, 3, HoldFrames)
    IN  {VaRefs0, quiet, VaTickRefs(held, 3), [held EXCEPT !.ttsPlaying = FALSE]}
            \cup {VaRepeat(playing, 3, n) : n \in 0 .. HoldFrames}

meterRest == << client, cfg, wsVars, running, pc, node, port, histVars, pdVars, vcVars,
                asVars, vaVars >>

InitMeter ==
    /\ client = "VoiceAgent"
    /\ cfg = VcConfig
    /\ sockets = << >>
    /\ wsRef = 0
    /\ running = FALSE
    /\ pc = <<"mount", 0>>
    /\ node = FALSE
    /\ port = << >>
    /\ micHist = << >>
    /\ resampled = << >>
    /\ framesOut = << >>
    /\ connected = FALSE
    /\ framesSent = 0
    /\ framesDropped = 0
    /\ delivered = 0
    /\ InitPd
    /\ InitAs
    /\ InitDnRest
    /\ InitVa
    /\ \E r \in MeterStarts :
       \E ua, ub \in {VaLevel(rms) : rms \in MeterRms} :
       \E ta, tb \in MeterLevels :
           meter = [a |-> [r EXCEPT !.lastUserLevel = ua, !.ttsLevel = ta],
                    b |-> [r EXCEPT !.lastUserLevel = ub, !.ttsLevel = tb],
                    n |-> 0]

\* one tick in both runs, on frames of the same rms
MeterTick(rms) ==
    /\ rms \in MeterRms
    /\ meter.n < MaxMeterTicks
    /\ LET a == VaTickRefs(meter.a, rms)
           b == VaTickRefs(meter.b, rms)
       IN  /\ a.speakK <= MaxSpeakFrames /\ b.speakK <= MaxSpeakFrames
           /\ meter' = [a |-> a, b |-> b, n |-> meter.n + 1]
    /\ UNCHANGED meterRest

\* {"type":"tts_level"} in one of the runs:
\* ttsLevelRef.current = clamp(Number(msg.value) || 0, 0, 1)
MeterTtsLevel(run, v) ==
    /\ run \in {"a", "b"}
    /\ v \in MeterLevels
    /\ meter' = [meter EXCEPT ![run].ttsLevel = v]
    /\ UNCHANGED meterRest

\* {"type":"tts_start"} (playing) or {"type":"tts_end"} (not playing), in both runs
MeterTts(playing) ==
    /\ playing \in BOOLEAN
    /\ meter' = [meter EXCEPT !.a.ttsPlaying = playing, !.a.bargeSent = FALSE,
                              !.b.ttsPlaying = playing, !.b.bargeSent = FALSE]
    /\ UNCHANGED meterRest

NextMeter ==
    \/ \E rms \in MeterRms : MeterTick(rms)
    \/ \E run \in {"a", "b"}, v \in MeterLevels : MeterTtsLevel(run, v)
    \/ \E playing \in BOOLEAN : MeterTts(playing)

SpecMeter == InitMeter /\ [][NextMeter]_vars

\* what the VAD decides and keeps
MeterDecision(r) ==
    << r.noiseFloor, r.speech, r.speakK, r.speakD, r.edge, r.bargeSent >>

(***************************************************************************)
(* C22 (VoiceAgent): the metering level is cosmetic.  Two runs of tick     *)
(* that agree on the frame's rms and on the VAD refs but differ in the     *)
(* stored user level and TTS level take the same speech decision, the same *)
(* accumulator update and the same barge-in decision; and the user level   *)
(* lies in [0, 1] and does not go down from one frame to a frame of equal  *)
(* or higher rms.                                                          *)
(***************************************************************************)
C22_LevelCosmetic ==
    [][meter'.n = meter.n + 1
         => /\ MeterDecision(meter.a) = MeterDecision(meter.b)
                => MeterDecision(meter'.a) = MeterDecision(meter'.b)
            /\ meter'.a.lastUserLevel \in 0 .. LevelScale
            /\ meter'.b.lastUserLevel \in 0 .. LevelScale
            /\ (meter.n > 0 /\ meter.a.rms <= meter'.a.rms)
                => meter.a.lastUserLevel <= meter'.a.lastUserLevel]_vars

\* the barge-in edge fired in both runs on a frame loud enough to saturate
\* the user level, while the runs hold different TTS levels
C22_Witness ==
    /\ meter.n > 0
    /\ meter.a.edge /\ meter.b.edge
    /\ meter.a.ttsLevel # meter.b.ttsLevel
    /\ meter.a.lastUserLevel = LevelScale

(***************************************************************************)
(* C23 (AudioStreamer): the clock reset of tts.start is atomic with        *)
(* respect to chunks.  No chunk is scheduled while a tts.start handler is  *)
(* between its receipt and its reset of the clock, and the handler resumes *)
(* only in a running session that has its audio context, where it resets   *)
(* the clock to now + LOOKAHEAD_SEC.                                       *)
(***************************************************************************)
C23_AtomicReset ==
    [][/\ Len(scheduled') = Len(scheduled) + 1 => ttsAwait = 0
       /\ ttsAwait' < ttsAwait
            => /\ running /\ audioCtxRef
               /\ playbackTimeRef' = now + LOOKAHEAD_SEC]_vars

(***************************************************************************)
(* C24 (AudioStreamer): the playback clock advances monotonically.  Within *)
(* one session, whatever the tts.start, chunk and tts.end events, each new *)
(* value of the playback clock is at least its previous value.             *)
(***************************************************************************)
C24_ClockMonotonic ==
    [][(running /\ running' /\ playbackTimeRef # Null /\ playbackTimeRef' # Null)
         => playbackTimeRef' >= playbackTimeRef]_vars

(***************************************************************************)
(* One utterance after another in a running AudioStreamer session, with    *)
(* tts.start declaring the session's rate, half of it, or none.            *)
(***************************************************************************)
DeclaredRates == TtsRates \cup {AsConfig.targetSr \div 2}

NextRate ==
    \/ \E rate \in DeclaredRates : AsTtsStart(1, rate)
    \/ AsTtsResumed
    \/ AsTtsEnd(1)
    \/ \E bytes \in DownBytes : AsBinary(1, bytes)
    \/ AsTimePasses

SpecRate == InitPlay /\ [][NextRate]_vars

(***************************************************************************)
(* C25 (AudioStreamer): scheduling a chunk advances the clock by exactly   *)
(* sampleCount / rate from the chunk's start, rate being the sample rate   *)
(* declared by the last tts.start (the utterance the chunk belongs to),    *)
(* also for a chunk that arrives after tts.end.                            *)
(***************************************************************************)
C25_ExactAdvance ==
    [][\A bytes \in DownBytes :
         (AsBinary(1, bytes) /\ Len(scheduled') = Len(scheduled) + 1)
            => playbackTimeRef'
                 = scheduled'[Len(scheduled')].when + AsDuration(bytes, ttsRate)]_vars

(***************************************************************************)
(* C26 (VoiceAgent): the noise floor does not rise on loud frames.  A VAD  *)
(* tick whose rms is at least the floor before the tick leaves the floor   *)
(* at or below its value before the tick.                                  *)
(***************************************************************************)
C26_NoRiseOnLoud ==
    [][\A rms \in RmsLevels :
         (VaTick(rms) /\ rms * NfScale >= noiseFloor) => noiseFloor' <= noiseFloor]_vars

\* |x|
Abs(x) == IF x < 0 THEN -x ELSE x

\* a tick of the first run taken during remote playback
MeterPlayingTick == meter'.n = meter.n + 1 /\ meter.a.ttsPlaying

C28_ContinuousSpeech ==
    [][/\ \A rms \in RmsLevels :
            (VaTick(rms) /\ ttsPlayingRef /\ ~IsSpeech(noiseFloor', rms))
               => speakK' = 0 /\ speakD' = 0
       /\ (ttsPlayingRef /\ ~ttsPlayingRef') => speakK' = 0 /\ speakD' = 0]_vars

\* {type: "barge_in"}
VaBargeIn == TextMsg("barge_in", 0, 0)

(***************************************************************************)
(* C29 (VoiceAgent): on the barge-in edge exactly one barge_in message is  *)
(* sent to the server, on the session's socket; and from the edge until    *)
(* the next tts_end the upload gate stays closed and no microphone chunk   *)
(* passes it.                                                              *)
(***************************************************************************)
C29_BargeInSent ==
    /\ [][bargeIns' = bargeIns + 1
            => /\ wsRef \in 1 .. Len(sockets)
               /\ sockets' = [sockets EXCEPT
                                ![wsRef].log = Append(sockets[wsRef].log, VaBargeIn)]]_vars
    /\ [](bargeIns > 0 => ~canUploadRef)
    /\ [][bargeIns > 0 => passed' = passed]_vars

(***************************************************************************)
(* Both resamplers fed a source that overdrives: amplitudes beyond 1.0 on  *)
(* either side, in arbitrary batches.                                      *)
(***************************************************************************)
\* amplitudes of the overdriven source: -2.0, 1.0 and 2.0
LoudAmplitudes == {-2, 1, 2}
\* its capture batches: every sequence of 1 .. MaxBatch - 1 of them
LoudBatches == SeqsUpTo(LoudAmplitudes, MaxBatch - 1) \ {<< >>}

NextLoud ==
    \/ \E ch0 \in LoudBatches : Len(micHist) + Len(ch0) <= MaxInput /\ PdProcess(ch0)
    \/ VcPortMessage
    \/ \E f32 \in LoudBatches : Len(micHist) + Len(f32) <= MaxInput /\ AsPortMessage(f32)

SpecLoud == InitCapture /\ [][NextLoud]_vars

\* the resampled sample (times cfg.targetSr) behind sample j of frame f
FrameSource(f, j) == resampled[(f - 1) * Len(framesOut[1]) + j]

\* the lowest Int16 the client's conversion produces: -1.0 * 0x7fff in
\* _flushFrame, -1.0 * 32768 in pumpUplinkChunks
LowestSample == IF client = "VoiceClient" THEN -32767 ELSE -32768

(***************************************************************************)
(* C30 (VoiceClient, AudioStreamer): quantization is clamped.  Every       *)
(* 16-bit sample placed in an uplink frame lies in [-32768, 32767] and     *)
(* does not wrap around, whatever the input amplitude: a resampled sample  *)
(* of 1.0 or more gives 32767, one of -1.0 or less gives the lowest value  *)
(* of the conversion, and a sample in between keeps its sign.              *)
(***************************************************************************)
C30_Clamped ==
    \A f \in 1 .. Len(framesOut) : \A j \in 1 .. Len(framesOut[f]) :
        LET v == framesOut[f][j]
            s == FrameSource(f, j)
        IN  /\ v \in -32768 .. 32767
            /\ s >= cfg.targetSr => v = 32767
            /\ s <= -cfg.targetSr => v = LowestSample
            /\ (s >= 0 => v >= 0) /\ (s <= 0 => v <= 0)

\* frames hold a sample clamped from above, one clamped from below and one
\* that needed no clamping
C30_Witness ==
    /\ \E f \in 1 .. Len(framesOut) : \E j \in 1 .. Len(framesOut[f]) :
          FrameSource(f, j) > cfg.targetSr /\ framesOut[f][j] = 32767
    /\ \E f \in 1 .. Len(framesOut) : \E j \in 1 .. Len(framesOut[f]) :
          FrameSource(f, j) < -cfg.targetSr /\ framesOut[f][j] = LowestSample
    /\ \E f \in 1 .. Len(framesOut) : \E j \in 1 .. Len(framesOut[f]) :
          /\ FrameSource(f, j) > -cfg.targetSr /\ FrameSource(f, j) < 0
          /\ framesOut[f][j] < 0

(***************************************************************************)
(* The resamplers at rate pairs whose ratio is not a multiple of 1/2: 2/5  *)
(* (upsampling) and 3/2 (downsampling).                                    *)
(***************************************************************************)
CursorRates == {800, 3000}

CursorConfigs ==
    {[sampleRate |-> r, targetSr |-> VcConfig.targetSr, frameMs |-> VcConfig.frameMs] :
        r \in CursorRates}

InitCursor ==
    /\ client \in {"VoiceClient", "AudioStreamer"}
    /\ cfg \in CursorConfigs
    /\ InitCaptureRest

SpecCursor == InitCursor /\ [][NextCapture]_vars

\* C31 as stated (cursor below the ratio): between calls the cursor of either
\* resampler is at least 0 and below ratio = Rin / Rout, whether the rate
\* pair downsamples or upsamples.
C31_CursorBelowRatio ==
    /\ 0 <= pdPos /\ pdPos < cfg.sampleRate
    /\ 0 <= readPtr /\ readPtr < ratio

\* C31 amended (the cursor is a fraction): between calls the cursor of either
\* resampler is at least 0 and below 1, hence below the ratio when the rate
\* pair downsamples; when it upsamples the cursor may reach or exceed the
\* ratio.
C31_CursorFraction ==
    /\ 0 <= pdPos /\ pdPos < cfg.targetSr
    /\ 0 <= readPtr /\ readPtr < cfg.targetSr
    /\ cfg.sampleRate >= cfg.targetSr => pdPos < cfg.sampleRate
    /\ ratio >= cfg.targetSr => readPtr < ratio

\* C31 witness: an upsampling worklet has produced samples and its cursor
\* stands at or beyond the ratio
C31_Witness ==
    /\ client = "VoiceClient"
    /\ cfg.sampleRate < cfg.targetSr
    /\ Len(resampled) > 0
    /\ pdPos >= cfg.sampleRate

(***************************************************************************)
(* VoiceClient: the start sequence on its own, with the socket that        *)
(* startCapture makes when the one in wsRef is gone, and the browser       *)
(* settling every connection and every promise it was asked for.           *)
(***************************************************************************)
NextStart ==
    \/ VcConnectWS
    \/ VcDisconnectWS
    \/ \E i \in 1 .. MaxSockets + MaxOverlap : VcWsOpen(i)
    \/ \E i \in 1 .. MaxSockets + MaxOverlap : VcWsClose(i)
    \/ VcStartCaptureUpTo(MaxSockets + MaxOverlap)
    \/ VcMicGranted
    \/ VcMicDenied
    \/ VcModuleFailed
    \/ VcModuleLoaded
    \/ VcStopCapture
    \/ Len(micHist) < MaxQuanta * RenderQuantum /\ PdProcess(SilentQuantum)
    \/ VcPortMessage

\* the connection attempt of socket i ends, it opens or it closes unopened;
\* a socket that close() was called on closes
VcConnectionSettles(i) ==
    /\ i \in 1 .. Len(sockets)
    /\ sockets[i].state \in {"CONNECTING", "CLOSING"}
    /\ (VcWsOpen(i) \/ VcWsClose(i))

\* every connection attempt ends; getUserMedia and addModule settle
StartFairness ==
    /\ \A i \in 1 .. MaxSockets + MaxOverlap : WF_vars(VcConnectionSettles(i))
    /\ WF_vars(VcMicGranted \/ VcMicDenied)
    /\ WF_vars(VcModuleLoaded \/ VcModuleFailed)

SpecStart == InitVC /\ [][NextStart]_vars /\ StartFairness

\* C32 (definite outcome of startCapture): every startCapture call that is
\* under way eventually ends, either with the session running or with the
\* microphone and the graph released; also when the connection it awaits is
\* refused or closes before it opens.
C32_DefiniteOutcome ==
    (pc # <<"idle", 0>>) ~> (pc = <<"idle", 0>> /\ (running \/ (~node /\ ~streamRef)))

\* C33 (auto-start): the step in which initializeVoice obtains the microphone
\* leaves the voice-agent session running, with the recorder started and a
\* VAD loop ticking, no user action in between.
C33_AutoStart ==
    [][(client = "VoiceAgent" /\ pc = <<"mic", 0>> /\ isInitialized')
          => (running' /\ recorder' = "recording" /\ vadLoops' > 0)]_vars

\* C34 (frame accounting, 16 kHz client): in every state the frames counted
\* as sent plus the frames counted as dropped are the frames the worklet has
\* delivered to node.port.onmessage in this capture session, whatever the
\* state of the socket.
C34_FrameAccounting ==
    client = "VoiceClient" => framesSent + framesDropped = delivered

\* C35 (stop halts the VAD): a VAD tick is taken only while the voice-agent
\* session is running, so that once stop() has run the noise floor, the
\* speech accumulator and the status text are no longer written by a tick;
\* and at most one VAD loop is alive at any time.
C35_StopHaltsVad ==
    /\ [][\A rms \in RmsLevels :
            (VaTick(rms) /\ ~running) => UNCHANGED << noiseFloor, speakK, speakD, status >>]_vars
    /\ [](vadLoops <= 1)

\* C36 (restart after stop): a start request made after a voice-agent
\* session was started and stopped leaves the session running again, with
\* the recorder recording, the analyser connected and a VAD loop alive.
C36_RestartAfterStop ==
    [][(VaStart /\ Len(sockets) > 0)
          => (running' /\ recorder' = "recording" /\ analyser' /\ vadLoops' > 0)]_vars

\* C37 (no playback after stop): while AudioStreamer is stopped, that is not
\* running with no start() call under way, no message of any socket makes
\* an AudioContext or schedules a chunk.
C37_NoPlaybackAfterStop ==
    [][(client = "AudioStreamer" /\ ~running /\ pc = <<"idle", 0>>
            /\ ~running' /\ pc' = <<"idle", 0>>)
          => /\ audioCtxRef' => audioCtxRef
             /\ Len(scheduled') <= Len(scheduled)]_vars

\* C38 (in-bounds interpolation): whenever pumpUplinkChunks produces chunks,
\* the highest index read for every chunk (i1 of its last sample) is below
\* the length of the input buffer, and the samples dropped after the chunk
\* are no more than the buffer holds; at every rate ratio.
C38_InBounds ==
    [][\A f32 \in Batches :
          (AsPortMessage(f32) /\ wsRef # 0 /\ wsOpenRef)
              => LET reads == AsPump(cfg, ratio, asInBuf \o f32, readPtr).reads
                 IN  \A k \in 1 .. Len(reads) :
                        /\ reads[k].i1 < reads[k].len
                        /\ reads[k].consumed <= reads[k].len]_vars

\* C39 (bounded retained input): between capture callbacks either resampler
\* holds fewer input samples than its next output needs, whether or not the
\* socket is open: the worklet fewer than ceil(pos + ratio) + 1, AudioStreamer
\* fewer than floor(readPtr + CHUNK_FRAMES * ratio + 1).
C39_BoundedInput ==
    /\ client = "VoiceClient"
          => Len(pdInBuf) < CeilDiv(pdPos + cfg.sampleRate, cfg.targetSr) + 1
    /\ client = "AudioStreamer"
          => Len(asInBuf) < AsMinNeeded(cfg, ratio, readPtr)

====
